---- MODULE Spec2Model ----
(***************************************************************************)
(* Model of the transcription task orchestrator of web-cli-wrapper:        *)
(* TranscriptionManager (src/src/transcription_manager.py) and the         *)
(* background wrappers that call it (src/src/api_routes.py,                *)
(* src/src/queue_routes.py).                                               *)
(*                                                                         *)
(* One task is followed from submission to the exit of its pipeline.  The  *)
(* environment (transcript provider, downloader, worker process, result    *)
(* store I/O, the caller's sink) is nondeterministic.                      *)
(*                                                                         *)
(* Specifications                                                          *)
(*   Spec      one task, every step of both pipelines;                     *)
(*   SpecPool  several queue tasks sharing the one-process worker pool;    *)
(*   SpecHang  the URL pipeline with a worker that never returns;          *)
(*   SpecUrl   extract_video_id applied to a set of URLs;                  *)
(*   SpecStore the result store: save, get, list and clear;                *)
(*   SpecDownload  download_audio and the files it leaves behind;          *)
(*   SpecRelay the URL pipeline with the worker's writes and the relay's   *)
(*             reads and polls taken apart;                                *)
(*   SpecRegistry  the task registry under the calls of the queue routes   *)
(*             and of the pipelines of several tasks.                      *)
(*                                                                         *)
(* Conventions                                                             *)
(*   - progress is a whole percentage; NoProgress stands for Python None   *)
(*     (the key is missing from the event dictionary);                     *)
(*   - text values are abstracted to tags ("yt_text", "wh_text");          *)
(*     "absent" stands for a missing dictionary key, "null" for None;      *)
(*   - a URL is a sequence of tokens, a token being one of the literal     *)
(*     prefixes of the patterns, a delimiter or a run of other characters; *)
(*   - the sink is described by the number of times it raises before it    *)
(*     first returns (the retry loop stops at the first return, so nothing *)
(*     after it is observable).                                            *)
(***************************************************************************)
EXTENDS Integers, Sequences, FiniteSets, TLC

\* ------------------------------------------------------------------ bounds
MaxLines == 2          \* lines the worker appends to the log while running
MaxSinkFailures == 4   \* most consecutive raises of the sink that are tried
MaxRePolls == 2        \* polls of the file pipeline that end in an exception
MaxTasks == 3          \* tasks submitted to the queue side by side
MaxStored == 3         \* task ids that may have a file in the result store
MaxWall == 2           \* seconds of the wall clock that are followed
MaxNow == 5            \* half seconds of the relay loop that are followed
MaxRegistered == 2     \* tasks in the registry of the queue routes

\* --------------------------------------------------------- program constants
max_retries == 3
NoProgress == 0 - 1

Pcts == {0, 50, 100}   \* percentages the downloader and the worker report

TaskIds == 1 .. MaxTasks   \* stand-ins for the uuid4 task ids
TaskId == 1                \* the task that is followed step by step

whisper_workers == 1       \* max_workers of _whisper_pool

Methods == {"YouTube", "Whisper", "Both", "Other"}

\* ---------------------------------------------------------------- URL shapes
Delims == {"&", "?", "#", "\n"}

Prefixes1 == {"youtube.com/watch?v=", "youtu.be/", "youtube.com/embed/"}

Prefixes2 == {"youtube.com/shorts/"}

Urls ==
  { <<"https://www.", "youtube.com/watch?v=", "abc123", "&", "t=1">>,
    <<"https://example.com/", "abc123">> }

NoId == << >>

\* The run of non-delimiter tokens of url that starts at position i.
RECURSIVE Group(_, _)
Group(url, i) ==
  IF i > Len(url) \/ url[i] \in Delims THEN << >>
  ELSE <<url[i]>> \o Group(url, i + 1)

\* re.search(prefix ([^&\n?#]+)): the leftmost prefix followed by a
\* non-empty group; NoId when there is none.
RECURSIVE Search(_, _, _)
Search(prefixes, url, i) ==
  IF i > Len(url) THEN NoId
  ELSE IF url[i] \in prefixes /\ Group(url, i + 1) # << >>
       THEN Group(url, i + 1)
       ELSE Search(prefixes, url, i + 1)

extract_video_id(url) ==
  IF Search(Prefixes1, url, 1) # NoId THEN Search(Prefixes1, url, 1)
  ELSE Search(Prefixes2, url, 1)

\* ------------------------------------------------------- events and snapshots
\* One record shape for the dictionaries passed around: the data of
\* _send_progress, the dictionaries of the file pipeline, the initial
\* snapshot of the queue routes.
Blank ==
  [present |-> TRUE, progress |-> NoProgress, message |-> "absent",
   status |-> "absent", complete |-> FALSE, success |-> FALSE,
   error |-> "absent", yt |-> "absent", wh |-> "absent",
   extra |-> "absent", method |-> "absent", url |-> << >>]

NoSnapshot == [Blank EXCEPT !.present = FALSE]

Data(progress, message) ==
  [Blank EXCEPT !.progress = progress, !.message = message]

Terminal(ev) == ev.complete

\* ---------------------------------------------------------------- delivery
\* The retry loop of _send_progress.  fails = number of times the sink
\* raises before it first returns.
Outcome(n, ok, sleeps) ==
  [invocations |-> n, delivered |-> ok, sleeps |-> sleeps, raised |-> FALSE]

\* The loop with a constant delay: the backoff is not doubled.
RECURSIVE SendLoop_NoBackoff(_, _, _, _)
SendLoop_NoBackoff(fails, attempt, retry_delay, sleeps) ==
  IF attempt >= max_retries THEN Outcome(attempt, FALSE, sleeps)
  ELSE IF fails <= attempt THEN Outcome(attempt + 1, TRUE, sleeps)
  ELSE IF attempt = max_retries - 1
       THEN SendLoop_NoBackoff(fails, attempt + 1, retry_delay, sleeps)
       ELSE SendLoop_NoBackoff(fails, attempt + 1, retry_delay,
                               Append(sleeps, retry_delay))

RECURSIVE SendLoop(_, _, _, _)
SendLoop(fails, attempt, retry_delay, sleeps) ==
  IF attempt >= max_retries THEN Outcome(attempt, FALSE, sleeps)
  ELSE IF fails <= attempt THEN Outcome(attempt + 1, TRUE, sleeps)
  ELSE IF attempt = max_retries - 1
       THEN SendLoop(fails, attempt + 1, retry_delay, sleeps)
       ELSE SendLoop(fails, attempt + 1, retry_delay * 2,
                     Append(sleeps, retry_delay))

Deliver(fails) == SendLoop(fails, 0, 1, << >>)

\* ------------------------------------------------------------------- state
VARIABLES
  pc,              \* position of the task's pipeline
  kind,            \* "url": process_transcription, "file": the file pipeline
  via,             \* "api": api_routes wrappers, "queue": queue_routes
  url, method,     \* the submitted request
  exc_msg,         \* the first exception raised in the pipeline, or "none"
  tasks,           \* self.tasks: the Task Registry
  stored,          \* the result file of the task in transcription_results/
  saves,           \* number of times the result file was opened for writing
  youtube_result,  \* "unset" (None), "ok" or "fail"
  start_progress,
  temp_dir,        \* "unset" (None), "exists" or "removed"
  rmtree_failed,   \* the removal of the temporary resources raised
  audio,           \* audio.mp3 exists
  progress_file,   \* the progress log exists
  log,             \* the lines of the progress log
  dl_last,         \* last percentage reported by the downloader
  worker,          \* "none", "running", "returned" or "crashed"
  future,          \* the future of the submitted worker job
  last_pos,        \* read cursor of the relay (lines consumed)
  repolls,         \* polls of the file pipeline that ended in an exception
  emitted,         \* the last two progress values handed to the sink
  termInv,         \* sink invocations that carried a terminal event
  termOk,          \* of these, the ones that returned
  sinkLast,        \* the last event the sink was invoked with
  sinkLines,       \* positions in the log of the last two events the sink
                   \* was handed, when its last events came from the log
  sinkTook,        \* the log positions the sink returned from: those after
                   \* the read cursor, and those it returned from twice
  delivery,        \* the last run of the delivery loop
  ret,             \* what the pipeline returned to its caller
  vid_id,          \* the identifier extracted from the URL, NoId for None
  stage,           \* per task: how far its pipeline got (several tasks)
  whisper_pending, \* jobs submitted to _whisper_pool and not yet started
  whisper_running, \* jobs a worker process of _whisper_pool is running
  futures,         \* per task: "none", "pending", "running", "ok", "fail"
  polls,           \* per task: parity of the relay loop's iterations
  results_dir,     \* transcription_results/: per task id its file, if any
  store_ret,       \* what the last call of the result store returned
  wall,            \* the wall clock, in seconds
  dl_pc,           \* position of download_audio
  dl_dir,          \* the files of the directory of the destination
  dl_err,          \* the message of the error download_audio raises
  dl_cleanup,      \* "none", "done" or "failed": the cleanup of line 434
  partial,         \* the last line of the log is written only in part
  inside,          \* the read offset lies inside line last_pos + 1
  now,             \* time since the relay loop began, in half seconds
  progress_at,     \* the times of the last two Progress events of the relay
  accesses         \* the accesses to self.tasks made by the last call

pool_vars == <<stage, whisper_pending, whisper_running, futures, polls>>

store_vars == <<results_dir, store_ret, wall>>

\* The variables of the component specifications other than the pool.
dl_vars == <<dl_pc, dl_dir, dl_err, dl_cleanup>>

relay_vars == <<partial, inside, now, progress_at>>

other_vars == <<store_vars, dl_vars, relay_vars, accesses>>

vars ==
  <<pc, kind, via, url, method, exc_msg, tasks, stored, saves, youtube_result,
    start_progress, temp_dir, rmtree_failed, audio, progress_file, log,
    dl_last, worker, future, last_pos, repolls, emitted, termInv,
    termOk, sinkLast, sinkLines, sinkTook, delivery, ret, vid_id, pool_vars,
    other_vars>>

NoResult == [content |-> "none", yt |-> "absent", wh |-> "absent",
             method |-> "absent", url |-> << >>]

NoFuture == [done |-> FALSE, success |-> FALSE, raised |-> FALSE]

NoneTaken == [after |-> {}, twice |-> {}]

NoDelivery ==
  [ev |-> NoSnapshot, fails |-> 0, invocations |-> 0, delivered |-> FALSE,
   sleeps |-> << >>, raised |-> FALSE]

FailCounts == 0 .. MaxSinkFailures

SaveOutcomes ==
  {"ok", "ok_empty", "raise_before", "raise_partial", "raise_missing"}

\* dict.update on the previous snapshot: the keys the new data lacks are
\* carried over.
update_progress_Merges(reg, task_id, progress_data) ==
  [reg EXCEPT
     ![task_id] =
        IF ~@.present THEN progress_data
        ELSE [k \in DOMAIN Blank |->
                IF progress_data[k] = Blank[k] THEN @[k]
                ELSE progress_data[k]]]

\* ------------------------------------------------- registry and result store
update_progress(reg, task_id, progress_data) ==
  [reg EXCEPT ![task_id] = progress_data]

\* save_transcription_result, by what the file system did:
\* "ok": the file was written and is found non-empty;
\* "ok_empty": the file is found with size zero (the size is only logged);
\* "raise_before": opening the file raised, nothing was written;
\* "raise_partial": the dump raised after the file had been truncated;
\* "raise_missing": the file is not found after the write: RuntimeError.
save_raises(outcome) ==
  outcome \in {"raise_before", "raise_partial", "raise_missing"}

save_transcription_result(file, result, outcome) ==
  IF outcome = "ok" THEN [result EXCEPT !.content = "full"]
  ELSE IF outcome = "ok_empty" THEN [result EXCEPT !.content = "empty"]
  ELSE IF outcome = "raise_partial" THEN [result EXCEPT !.content = "partial"]
  ELSE file

\* ------------------------------------------------------------ _send_progress
\* The part of the state _send_progress reads and writes.
Bundle ==
  [tasks |-> tasks, stored |-> stored, saves |-> saves, emitted |-> emitted,
   termInv |-> termInv, termOk |-> termOk, sinkLast |-> sinkLast,
   sinkLines |-> sinkLines, sinkTook |-> sinkTook,
   delivery |-> delivery, exc |-> "none"]

Commit(S) ==
  /\ tasks' = S.tasks
  /\ stored' = S.stored
  /\ saves' = S.saves
  /\ emitted' = S.emitted
  /\ termInv' = S.termInv
  /\ termOk' = S.termOk
  /\ sinkLast' = S.sinkLast
  /\ sinkLines' = S.sinkLines
  /\ sinkTook' = S.sinkTook
  /\ delivery' = S.delivery

UnchangedBundle ==
  UNCHANGED <<tasks, stored, saves, emitted, termInv, termOk, sinkLast,
              sinkLines, sinkTook, delivery>>

LastTwo(seq) == IF Len(seq) > 2 THEN Tail(seq) ELSE seq

\* The sink is invoked d.invocations times with ev.
Invoke(S, ev, fails, d) ==
  [S EXCEPT
     !.emitted = IF ev.progress # NoProgress /\ d.invocations > 0
                 THEN LastTwo(Append(@, ev.progress)) ELSE @,
     !.termInv = IF Terminal(ev) THEN @ + d.invocations ELSE @,
     !.termOk = IF Terminal(ev) /\ d.delivered THEN @ + 1 ELSE @,
     !.sinkLast = IF d.invocations > 0 THEN ev ELSE @,
     !.sinkLines = IF d.invocations > 0 THEN << >> ELSE @,
     !.delivery = [ev |-> ev, fails |-> fails, invocations |-> d.invocations,
                   delivered |-> d.delivered, sleeps |-> d.sleeps,
                   raised |-> d.raised],
     !.exc = IF d.raised THEN "sink" ELSE "none"]

send_progress(S, ev, fails, save) ==
  LET S1 == [S EXCEPT !.tasks = update_progress(@, TaskId, ev)]
      result == [content |-> "none", yt |-> ev.yt, wh |-> ev.wh,
                 method |-> IF S1.tasks[TaskId].method = "absent"
                            THEN "unknown" ELSE S1.tasks[TaskId].method,
                 url |-> IF S1.tasks[TaskId].url = << >>
                         THEN <<"unknown">> ELSE S1.tasks[TaskId].url]
  IN IF ev.complete /\ ev.success
     THEN LET S2 == [S1 EXCEPT
                       !.stored = save_transcription_result(@, result, save),
                       !.saves = IF save = "raise_before" THEN @ ELSE @ + 1]
          IN IF ~save_raises(save) THEN Invoke(S2, ev, fails, Deliver(fails))
             ELSE [S2 EXCEPT !.exc = "save"]
     ELSE Invoke(S1, ev, fails, Deliver(fails))

\* A second call made by the same step, skipped when the first one raised.
Then(S, ev, fails, save) ==
  IF S.exc # "none" THEN S ELSE send_progress(S, ev, fails, save)

\* Where the pipeline goes after a call: into the except clause if it raised.
After(S, next) ==
  /\ pc' = IF S.exc # "none" THEN "except" ELSE next
  /\ exc_msg' = IF S.exc # "none" /\ exc_msg = "none" THEN S.exc ELSE exc_msg

\* ------------------------------------------------------------- the events
Complete(yt, wh) ==
  [Data(100, "Complete") EXCEPT
     !.complete = TRUE, !.success = TRUE, !.yt = yt, !.wh = wh]

Error(msg) ==
  [Data(100, "Error") EXCEPT
     !.complete = TRUE, !.success = FALSE, !.error = msg]

Extra(what) == [Data(NoProgress, "absent") EXCEPT !.extra = what]

LogError(msg) == [Data(NoProgress, "absent") EXCEPT !.error = msg]

\* -------------------------------------------------------------------- Init
\* The pipeline of the followed task before its submission.
PipelineInit ==
  /\ pc = "new"
  /\ kind = "url"
  /\ via = "api"
  /\ method = "absent"
  /\ exc_msg = "none"
  /\ stored = NoResult
  /\ saves = 0
  /\ youtube_result = "unset"
  /\ start_progress = 0
  /\ temp_dir = "unset"
  /\ rmtree_failed = FALSE
  /\ audio = FALSE
  /\ progress_file = FALSE
  /\ log = << >>
  /\ dl_last = 0
  /\ worker = "none"
  /\ future = NoFuture
  /\ last_pos = 0
  /\ repolls = 0
  /\ emitted = << >>
  /\ termInv = 0
  /\ termOk = 0
  /\ sinkLast = NoSnapshot
  /\ sinkLines = << >>
  /\ sinkTook = NoneTaken
  /\ delivery = NoDelivery
  /\ ret = "running"
  /\ vid_id = NoId

\* The result store is not looked at: no call is made on it.
StoreIdle ==
  /\ results_dir = << >>
  /\ store_ret = "none"
  /\ wall = 0

\* download_audio is followed as the two steps PT_DownloadOk and
\* PT_DownloadFail: its directory is not looked at.
DownloadIdle ==
  /\ dl_pc = "idle"
  /\ dl_dir = << >>
  /\ dl_err = "none"
  /\ dl_cleanup = "none"

\* Every line of the log is written at once and the time is not followed.
RelayIdle ==
  /\ partial = FALSE
  /\ inside = FALSE
  /\ now = 0
  /\ progress_at = << >>

\* The accesses to the registry are not looked at.
RegistryIdle == accesses = {}

\* Everything but the URL of the request, the registry and the pool.
InitOther ==
  PipelineInit /\ StoreIdle /\ DownloadIdle /\ RelayIdle /\ RegistryIdle

\* One task is followed: the registry has room for its id, no queue task
\* exists and the pool has no job.
OneTask ==
  /\ tasks = [t \in {TaskId} |-> NoSnapshot]
  /\ stage = << >>
  /\ whisper_pending = << >>
  /\ whisper_running = {}
  /\ futures = << >>
  /\ polls = << >>

Init == url = << >> /\ OneTask /\ InitOther

\* --------------------------------------------------------------- submission
\* /api/transcribe and /api/queue/add: the queue route stores a pending
\* snapshot before it starts the background task, the api route stores none.
Queued(u, m) ==
  [Blank EXCEPT !.url = u, !.method = m, !.status = "pending",
                !.progress = 0, !.message = "Queued"]

SubmitUrl(v, u, m) ==
  /\ pc = "new"
  /\ kind' = "url"
  /\ via' = v
  /\ url' = u
  /\ method' = m
  /\ tasks' = IF v = "queue" THEN update_progress(tasks, TaskId, Queued(u, m))
              ELSE tasks
  /\ pc' = "start"
  /\ UNCHANGED <<exc_msg, stored, saves, youtube_result, start_progress,
                 temp_dir, rmtree_failed, audio, progress_file, log, dl_last,
                 worker, future, last_pos, repolls, emitted, termInv,
                 termOk, sinkLast, sinkLines, sinkTook, delivery, ret>>
  /\ UNCHANGED <<vid_id, pool_vars, other_vars>>

PT_Start_NoCheck ==
  /\ pc = "start" /\ kind = "url"
  /\ vid_id' = extract_video_id(url)
  /\ UNCHANGED <<pool_vars, other_vars>>
  /\ pc' = IF method \in {"YouTube", "Both"} THEN "fetch" ELSE "audio"
  /\ exc_msg' = exc_msg
  /\ UnchangedBundle
  /\ UNCHANGED <<kind, via, url, method, youtube_result, start_progress,
                 temp_dir, rmtree_failed, audio, progress_file, log, dl_last,
                 worker, future, last_pos, repolls, ret>>

\* ------------------------------------------------- process_transcription
\* Lines 471-482: the identifier is extracted, the first branch is chosen.
PT_Start ==
  /\ pc = "start" /\ kind = "url"
  /\ vid_id' = extract_video_id(url)
  /\ UNCHANGED <<pool_vars, other_vars>>
  /\ IF vid_id' = NoId
     THEN pc' = "except" /\ exc_msg' = "Invalid YouTube URL"
     ELSE /\ pc' = IF method \in {"YouTube", "Both"} THEN "fetch" ELSE "audio"
          /\ exc_msg' = exc_msg
  /\ UnchangedBundle
  /\ UNCHANGED <<kind, via, url, method, youtube_result, start_progress,
                 temp_dir, rmtree_failed, audio, progress_file, log, dl_last,
                 worker, future, last_pos, repolls, ret>>

PT_Fetch_ProviderFailureFatal(fails, provider) ==
  /\ pc = "fetch"
  /\ LET S == send_progress(Bundle, Data(0, "Fetching YouTube transcript..."),
                            fails, "ok")
     IN /\ Commit(S)
        /\ pc' = IF provider = "ok"
                 THEN IF method = "YouTube" THEN "youtube_only" ELSE "audio"
                 ELSE "except"
        /\ exc_msg' = IF provider = "ok" THEN exc_msg ELSE "provider"
  /\ youtube_result' = provider
  /\ UNCHANGED <<kind, via, url, method, start_progress, temp_dir,
                 rmtree_failed, audio, progress_file, log, dl_last,
                 worker, future, last_pos, repolls, ret>>
  /\ UNCHANGED <<vid_id, pool_vars, other_vars>>

\* Lines 483-485: the fetch event, then the provider is queried.
PT_Fetch(fails, provider) ==
  /\ pc = "fetch"
  /\ LET S == send_progress(Bundle, Data(0, "Fetching YouTube transcript..."),
                            fails, "ok")
     IN /\ Commit(S)
        /\ After(S, IF provider = "ok" /\ method = "YouTube"
                    THEN "youtube_only" ELSE "audio")
  /\ youtube_result' = provider
  /\ UNCHANGED <<kind, via, url, method, start_progress, temp_dir,
                 rmtree_failed, audio, progress_file, log, dl_last,
                 worker, future, last_pos, repolls, ret>>
  /\ UNCHANGED <<vid_id, pool_vars, other_vars>>

PT_YouTubeOnly_SentTwice(fails, save) ==
  /\ pc = "youtube_only"
  /\ LET ev == Complete("yt_text", "absent")
         S == Then(send_progress(Bundle, ev, fails, save), ev, fails, save)
     IN /\ Commit(S)
        /\ After(S, "finally")
  /\ UNCHANGED <<kind, via, url, method, youtube_result, start_progress,
                 temp_dir, rmtree_failed, audio, progress_file, log, dl_last,
                 worker, future, last_pos, repolls, ret>>
  /\ UNCHANGED <<vid_id, pool_vars, other_vars>>

\* Lines 485-491: the provider-only short circuit.
PT_YouTubeOnly(fails, save) ==
  /\ pc = "youtube_only"
  /\ LET S == send_progress(Bundle, Complete("yt_text", "absent"), fails, save)
     IN /\ Commit(S)
        /\ After(S, "finally")
  /\ UNCHANGED <<kind, via, url, method, youtube_result, start_progress,
                 temp_dir, rmtree_failed, audio, progress_file, log, dl_last,
                 worker, future, last_pos, repolls, ret>>
  /\ UNCHANGED <<vid_id, pool_vars, other_vars>>

\* Lines 493-497: the temporary directory and the start offset.
PT_Audio ==
  /\ pc = "audio"
  /\ IF method \in {"Whisper", "Both"}
     THEN /\ temp_dir' = "exists"
          /\ start_progress' = IF youtube_result = "ok" THEN 30 ELSE 0
          /\ pc' = "download"
     ELSE /\ pc' = "finally"
          /\ UNCHANGED <<temp_dir, start_progress>>
  /\ UnchangedBundle
  /\ UNCHANGED <<kind, via, url, method, exc_msg, youtube_result,
                 rmtree_failed, audio, progress_file, log, dl_last,
                 worker, future, last_pos, repolls, ret>>
  /\ UNCHANGED <<vid_id, pool_vars, other_vars>>

\* Lines 499-504: dl_cb, the callback handed to the downloader.
dl_scaled(start, p) == start + (p * 3) \div 10

dl_cb(S, p, fails) ==
  send_progress(S, Data(dl_scaled(start_progress, p), "Downloading audio..."),
                fails, "ok")

\* The downloader keeps reporting while the relay loop runs.
PT_Hook_DuringRelay(p, fails) ==
  /\ pc \in {"download", "relay"}
  /\ p >= dl_last
  /\ LET S == dl_cb(Bundle, p, fails)
     IN /\ Commit(S)
        /\ After(S, pc)
  /\ dl_last' = p
  /\ UNCHANGED <<kind, via, url, method, youtube_result, start_progress,
                 temp_dir, rmtree_failed, audio, progress_file, log, worker,
                 future, last_pos, repolls, ret>>
  /\ UNCHANGED <<vid_id, pool_vars, other_vars>>

\* Lines 446-460: a progress hook of the downloader; the percentages it
\* reports do not decrease.
PT_Hook(p, fails) ==
  /\ pc = "download"
  /\ p >= dl_last
  /\ LET S == dl_cb(Bundle, p, fails)
     IN /\ Commit(S)
        /\ After(S, "download")
  /\ dl_last' = p
  /\ UNCHANGED <<kind, via, url, method, youtube_result, start_progress,
                 temp_dir, rmtree_failed, audio, progress_file, log, worker,
                 future, last_pos, repolls, ret>>
  /\ UNCHANGED <<vid_id, pool_vars, other_vars>>

\* Lines 428-429 and 510-526: the download returned; its last report of
\* 100, the start event of the transcription, the worker job is submitted.
PT_DownloadOk(fails1, fails2) ==
  /\ pc = "download"
  /\ LET S == Then(dl_cb(Bundle, 100, fails1),
                   Data(start_progress + 30, "Starting transcription..."),
                   fails2, "ok")
     IN /\ Commit(S)
        /\ After(S, "relay")
        /\ worker' = IF S.exc = "none" THEN "running" ELSE worker
  /\ audio' = TRUE
  /\ dl_last' = 100
  /\ last_pos' = 0
  /\ UNCHANGED <<kind, via, url, method, youtube_result, start_progress,
                 temp_dir, rmtree_failed, progress_file, log, future,
                 repolls, ret>>
  /\ UNCHANGED <<vid_id, pool_vars, other_vars>>

\* Lines 431-444: the download failed; the partial files are removed and a
\* RuntimeError is raised.
PT_DownloadFail ==
  /\ pc = "download"
  /\ pc' = "except"
  /\ exc_msg' = "Failed to download audio"
  /\ audio' = FALSE
  /\ UnchangedBundle
  /\ UNCHANGED <<kind, via, url, method, youtube_result, start_progress,
                 temp_dir, rmtree_failed, progress_file, log, dl_last,
                 worker, future, last_pos, repolls, ret>>
  /\ UNCHANGED <<vid_id, pool_vars, other_vars>>

\* ------------------------------------------------------ the worker process
\* _transcribe_in_process runs in its own process.  write_update appends a
\* line to the progress log; the relay decodes whatever lines it finds, so
\* the lines are drawn from every shape its decoder distinguishes ("output"
\* lines are relayed exactly as "debug" lines are, which stand for both).
Line(type, pct) == [type |-> type, pct |-> pct]

LineTypes == {"debug", "error", "malformed", "untyped"}

Lines == {Line(t, 0) : t \in LineTypes} \cup {Line("progress", p) : p \in Pcts}

RECURSIVE MaxPct(_)
MaxPct(lines) ==
  IF lines = << >> THEN 0
  ELSE LET m == MaxPct(Tail(lines))
       IN IF Head(lines).pct > m THEN Head(lines).pct ELSE m

\* open(progress_file, "a") needs the directory of the log.
LogWritable == IF kind = "url" THEN temp_dir = "exists" ELSE TRUE

\* Lines 93-96: write_update.
WorkerAppend(line) ==
  /\ worker = "running"
  /\ LogWritable
  /\ Len(log) < MaxLines
  /\ line.pct >= MaxPct(log)
  /\ log' = Append(log, line)
  /\ progress_file' = TRUE
  /\ UnchangedBundle
  /\ UNCHANGED <<pc, kind, via, url, method, exc_msg, youtube_result,
                 start_progress, temp_dir, rmtree_failed, audio, dl_last,
                 worker, future, last_pos, repolls, ret>>
  /\ UNCHANGED <<vid_id, pool_vars, other_vars>>

\* Lines 146-157 (ok) and 163-167 (an exception: two lines are appended and
\* a failure result is returned).
WorkerReturn(ok) ==
  /\ worker = "running"
  /\ ok \/ LogWritable
  /\ worker' = "returned"
  /\ future' = [done |-> TRUE, success |-> ok, raised |-> FALSE]
  /\ IF ok THEN UNCHANGED <<log, progress_file>>
     ELSE /\ log' = log \o <<Line("debug", 0), Line("error", 0)>>
          /\ progress_file' = TRUE
  /\ UnchangedBundle
  /\ UNCHANGED <<pc, kind, via, url, method, exc_msg, youtube_result,
                 start_progress, temp_dir, rmtree_failed, audio, dl_last,
                 last_pos, repolls, ret>>
  /\ UNCHANGED <<vid_id, pool_vars, other_vars>>

\* write_update raises when the directory of the log is gone, also inside
\* the except clause of the worker: the job ends with an exception.
WorkerCrash ==
  /\ worker = "running"
  /\ ~LogWritable
  /\ worker' = "crashed"
  /\ future' = [done |-> TRUE, success |-> FALSE, raised |-> TRUE]
  /\ UnchangedBundle
  /\ UNCHANGED <<pc, kind, via, url, method, exc_msg, youtube_result,
                 start_progress, temp_dir, rmtree_failed, audio,
                 progress_file, log, dl_last, last_pos, repolls, ret>>
  /\ UNCHANGED <<vid_id, pool_vars, other_vars>>

\* ------------------------------------------------------------ the relay loop
\* Lines 528-532: the future is not done, the log exists and is opened.
PT_PollBegin ==
  /\ pc = "relay" /\ kind = "url"
  /\ ~future.done
  /\ progress_file
  /\ pc' = "reading"
  /\ UnchangedBundle
  /\ UNCHANGED <<kind, via, url, method, exc_msg, youtube_result,
                 start_progress, temp_dir, rmtree_failed, audio,
                 progress_file, log, dl_last, worker, future,
                 last_pos, repolls, ret>>
  /\ UNCHANGED <<vid_id, pool_vars, other_vars>>

\* S1 is S after the sink was handed the event of position i of the log.
FromLog(S, S1, i) ==
  [S1 EXCEPT
     !.sinkLines = LastTwo(Append(S.sinkLines, i)),
     !.sinkTook =
        IF ~S1.delivery.delivered THEN @
        ELSE [after |-> @.after \cup {i},
              twice |-> IF i \in @.after THEN @.twice \cup {i} ELSE @.twice]]

\* The read cursor has moved to position cursor of the log.
Consumed(S, cursor) ==
  [S EXCEPT !.sinkTook.after = {i \in @ : i > cursor}]

\* The lines the relay of process_transcription hands on (lines 542-568).
Relayed(line) == line.type \notin {"malformed", "untyped"}

\* The rescaling without the share of the download phase.
tr_scaled_noshift(start, pct) == start + (pct * 4) \div 10

tr_scaled(start, pct) == start + 30 + (pct * 4) \div 10

\* An error line ends the loop like an exception of the worker.
Dispatch_ErrorIsFatal(S, line, fails) ==
  IF line.type = "malformed" THEN S
  ELSE IF line.type = "untyped" THEN [S EXCEPT !.exc = "KeyError"]
  ELSE IF line.type = "progress"
       THEN send_progress(S, Data(tr_scaled(start_progress, line.pct),
                                  "Transcribing..."), fails, "ok")
  ELSE IF line.type = "error"
       THEN [send_progress(S, LogError("worker error"), fails, "ok")
               EXCEPT !.exc = "worker error"]
  ELSE send_progress(S, Extra(line.type), fails, "ok")

\* Lines 533-568: one line of the log is read and dispatched on its type.
Dispatch(S, line, fails) ==
  IF line.type = "malformed" THEN S
  ELSE IF line.type = "untyped" THEN [S EXCEPT !.exc = "KeyError"]
  ELSE IF line.type = "progress"
       THEN send_progress(S, Data(tr_scaled(start_progress, line.pct),
                                  "Transcribing..."), fails, "ok")
  ELSE IF line.type = "error"
       THEN send_progress(S, LogError("worker error"), fails, "ok")
  ELSE send_progress(S, Extra(line.type), fails, "ok")

PT_ReadLine(fails) ==
  /\ pc = "reading"
  /\ last_pos < Len(log)
  /\ LET S0 == Dispatch(Bundle, log[last_pos + 1], fails)
         S == IF Relayed(log[last_pos + 1])
              THEN Consumed(FromLog(Bundle, S0, last_pos + 1), last_pos + 1)
              ELSE S0
     IN /\ Commit(S)
        /\ After(S, "reading")
  /\ last_pos' = last_pos + 1
  /\ UNCHANGED <<kind, via, url, method, youtube_result, start_progress,
                 temp_dir, rmtree_failed, audio, progress_file, log, dl_last,
                 worker, future, repolls, ret>>
  /\ UNCHANGED <<vid_id, pool_vars, other_vars>>

\* Lines 569-573: end of file; the offset is kept and the loop sleeps.
PT_PollEnd ==
  /\ pc = "reading"
  /\ last_pos = Len(log)
  /\ pc' = "relay"
  /\ UnchangedBundle
  /\ UNCHANGED <<kind, via, url, method, exc_msg, youtube_result,
                 start_progress, temp_dir, rmtree_failed, audio,
                 progress_file, log, dl_last, worker, future,
                 last_pos, repolls, ret>>
  /\ UNCHANGED <<vid_id, pool_vars, other_vars>>

PT_Result_IgnoresSuccessFlag(fails, save) ==
  /\ pc = "relay" /\ kind = "url"
  /\ future.done
  /\ LET S == send_progress(
                Bundle,
                Complete(IF youtube_result = "ok" THEN "yt_text"
                         ELSE "null", "wh_text"),
                fails, save)
     IN /\ Commit(S)
        /\ After(S, "finally")
  /\ UNCHANGED <<kind, via, url, method, youtube_result, start_progress,
                 temp_dir, rmtree_failed, audio, progress_file, log, dl_last,
                 worker, future, last_pos, repolls, ret>>
  /\ UNCHANGED <<vid_id, pool_vars, other_vars>>

\* Lines 575-591: the result of the worker.
PT_Result(fails, save) ==
  /\ pc = "relay" /\ kind = "url"
  /\ future.done
  /\ IF future.success
     THEN LET S == send_progress(
                     Bundle,
                     Complete(IF youtube_result = "ok" THEN "yt_text"
                              ELSE "null", "wh_text"),
                     fails, save)
          IN /\ Commit(S)
             /\ After(S, "finally")
     ELSE /\ UnchangedBundle
          /\ pc' = "except"
          /\ exc_msg' = IF future.raised THEN "worker crashed"
                        ELSE "worker error"
  /\ UNCHANGED <<kind, via, url, method, youtube_result, start_progress,
                 temp_dir, rmtree_failed, audio, progress_file, log, dl_last,
                 worker, future, last_pos, repolls, ret>>
  /\ UNCHANGED <<vid_id, pool_vars, other_vars>>

\* Lines 593-596: the except clause.
PT_Except(fails) ==
  /\ pc = "except"
  /\ LET S == send_progress(Bundle, Error(exc_msg), fails, "ok")
     IN /\ Commit(S)
        /\ ret' = IF S.exc # "none" THEN "raising" ELSE ret
  /\ pc' = "finally"
  /\ UNCHANGED <<kind, via, url, method, exc_msg, youtube_result,
                 start_progress, temp_dir, rmtree_failed, audio,
                 progress_file, log, dl_last, worker, future,
                 last_pos, repolls>>
  /\ UNCHANGED <<vid_id, pool_vars, other_vars>>

\* The cleanup as the last statement of the try block instead of a finally
\* clause: it is skipped when an exception was raised.
PT_Finally_OnlyOnSuccess(removed) ==
  /\ pc = "finally"
  /\ IF temp_dir = "exists" /\ exc_msg = "none"
     THEN IF removed
          THEN /\ temp_dir' = "removed"
               /\ audio' = FALSE
               /\ progress_file' = FALSE
               /\ log' = << >>
               /\ UNCHANGED rmtree_failed
          ELSE /\ rmtree_failed' = TRUE
               /\ UNCHANGED <<temp_dir, audio, progress_file, log>>
     ELSE /\ removed
          /\ UNCHANGED <<temp_dir, audio, progress_file, log, rmtree_failed>>
  /\ ret' = IF ret = "raising" THEN "raised" ELSE "none"
  /\ pc' = "exited"
  /\ UnchangedBundle
  /\ UNCHANGED <<kind, via, url, method, exc_msg, youtube_result,
                 start_progress, dl_last, worker, future, last_pos, repolls>>
  /\ UNCHANGED <<vid_id, pool_vars, other_vars>>

\* Lines 597-602: the finally clause; an exception of rmtree is logged and
\* swallowed.
PT_Finally(removed) ==
  /\ pc = "finally"
  /\ IF temp_dir = "exists"
     THEN IF removed
          THEN /\ temp_dir' = "removed"
               /\ audio' = FALSE
               /\ progress_file' = FALSE
               /\ log' = << >>
               /\ UNCHANGED rmtree_failed
          ELSE /\ rmtree_failed' = TRUE
               /\ UNCHANGED <<temp_dir, audio, progress_file, log>>
     ELSE /\ removed
          /\ UNCHANGED <<temp_dir, audio, progress_file, log, rmtree_failed>>
  /\ ret' = IF ret = "raising" THEN "raised" ELSE "none"
  /\ pc' = "exited"
  /\ UnchangedBundle
  /\ UNCHANGED <<kind, via, url, method, exc_msg, youtube_result,
                 start_progress, dl_last, worker, future, last_pos,
                 repolls>>
  /\ UNCHANGED <<vid_id, pool_vars, other_vars>>

\* ------------------------------------------- process_file_transcription
\* The file pipeline calls progress_callback directly, once per event.  The
\* callback of the queue routes stores the event in the registry before it
\* emits; the callback of the api routes only emits.
call_sink(S, ev, ok) ==
  LET S1 == IF via = "queue"
            THEN [S EXCEPT !.tasks = update_progress(@, TaskId, ev)] ELSE S
  IN Invoke(S1, ev, IF ok THEN 0 ELSE 1,
            [invocations |-> 1, delivered |-> ok, sleeps |-> << >>,
             raised |-> ~ok])

QueuedFile ==
  [Blank EXCEPT !.status = "pending", !.progress = 0, !.message = "Queued"]

Started ==
  [Data(0, "Starting transcription...") EXCEPT !.status = "processing"]

Completed ==
  [Data(100, "Transcription complete") EXCEPT
     !.status = "completed", !.complete = TRUE, !.success = TRUE,
     !.wh = "wh_text"]

Failed(msg) ==
  [Data(100, "Error") EXCEPT
     !.status = "failed", !.complete = TRUE, !.success = FALSE,
     !.error = msg]

FileUpdate(line) ==
  [Blank EXCEPT !.status = "transcribing", !.extra = line.type,
                !.progress = IF line.type = "progress" THEN line.pct
                             ELSE NoProgress]

FileResult ==
  [content |-> "none", yt |-> "absent", wh |-> "wh_text",
   method |-> "absent", url |-> << >>]

\* /api/transcribe-file and /api/queue/add-files.
SubmitFile(v) ==
  /\ pc = "new"
  /\ kind' = "file"
  /\ via' = v
  /\ tasks' = IF v = "queue" THEN update_progress(tasks, TaskId, QueuedFile)
              ELSE tasks
  /\ pc' = "start"
  /\ UNCHANGED <<url, method, exc_msg, stored, saves, youtube_result,
                 start_progress, temp_dir, rmtree_failed, audio,
                 progress_file, log, dl_last, worker, future,
                 last_pos, repolls, emitted, termInv, termOk, sinkLast,
                 sinkLines, sinkTook, delivery, ret>>
  /\ UNCHANGED <<vid_id, pool_vars, other_vars>>

\* Lines 264-287: the start event, the progress file, the worker job.
PF_Start(ok) ==
  /\ pc = "start" /\ kind = "file"
  /\ LET S == call_sink(Bundle, Started, ok)
     IN /\ Commit(S)
        /\ pc' = IF ok THEN "f_relay" ELSE "f_except"
        /\ exc_msg' = IF ok THEN exc_msg ELSE "sink"
  /\ progress_file' = ok
  /\ worker' = IF ok THEN "running" ELSE worker
  /\ UNCHANGED <<kind, via, url, method, youtube_result, start_progress,
                 temp_dir, rmtree_failed, audio, log, dl_last, future,
                 last_pos, repolls, ret>>
  /\ UNCHANGED <<vid_id, pool_vars, other_vars>>

\* The lines i+1 .. stop are handed to the callback, which returns.
RECURSIVE ForwardLines(_, _, _)
ForwardLines(S, i, stop) ==
  IF i >= stop THEN S
  ELSE ForwardLines(FromLog(S, call_sink(S, FileUpdate(log[i + 1]), TRUE),
                            i + 1),
                    i + 1, stop)

\* Lines 291-303: one poll.  The lines after the cursor are decoded and
\* forwarded; an undecodable line or a raising callback ends the poll in the
\* inner except clause and leaves the cursor where it was.
PF_Poll(stop) ==
  /\ pc = "f_relay"
  /\ ~future.done
  /\ last_pos < Len(log)
  /\ stop \in last_pos .. Len(log)
  /\ \A j \in (last_pos + 1) .. stop : log[j].type # "malformed"
  /\ stop < Len(log) => repolls < MaxRePolls
  /\ LET S1 == ForwardLines(Bundle, last_pos, stop)
         S2 == IF stop < Len(log) /\ log[stop + 1].type # "malformed"
               THEN FromLog(S1, call_sink(S1, FileUpdate(log[stop + 1]),
                                          FALSE), stop + 1)
               ELSE S1
     IN Commit(IF stop = Len(log) THEN Consumed(S2, Len(log)) ELSE S2)
  /\ last_pos' = IF stop = Len(log) THEN Len(log) ELSE last_pos
  /\ repolls' = IF stop < Len(log) THEN repolls + 1 ELSE repolls
  /\ UNCHANGED <<pc, kind, via, url, method, exc_msg, youtube_result,
                 start_progress, temp_dir, rmtree_failed, audio,
                 progress_file, log, dl_last, worker, future, ret>>
  /\ UNCHANGED <<vid_id, pool_vars, other_vars>>

\* Lines 305-361: the result of the worker, the save, the terminal event and
\* the inner finally clause that unlinks the progress file.
PF_Result(save, ok, removed) ==
  /\ pc = "f_relay"
  /\ future.done
  /\ LET S0 == Bundle
         S1 == [S0 EXCEPT
                  !.stored = save_transcription_result(@, FileResult, save),
                  !.saves = IF save = "raise_before" THEN @ ELSE @ + 1]
         S == IF future.raised THEN [S0 EXCEPT !.exc = "worker crashed"]
              ELSE IF ~future.success
                   THEN call_sink(S0, Failed("worker error"), ok)
              ELSE IF save_raises(save) THEN [S1 EXCEPT !.exc = "save"]
              ELSE call_sink(S1, Completed, ok)
     IN /\ Commit(S)
        /\ pc' = IF S.exc # "none" THEN "f_except" ELSE "exited"
        /\ exc_msg' = IF S.exc # "none" THEN S.exc ELSE exc_msg
        /\ ret' = IF S.exc # "none" THEN ret
                  ELSE IF future.success THEN "success" ELSE "fail"
  /\ progress_file' = ~removed
  /\ log' = IF removed THEN << >> ELSE log
  /\ rmtree_failed' = ~removed
  /\ UNCHANGED <<kind, via, url, method, youtube_result, start_progress,
                 temp_dir, audio, dl_last, worker, future, last_pos,
                 repolls>>
  /\ UNCHANGED <<vid_id, pool_vars, other_vars>>

\* Lines 363-375: the outer except clause; an exception of the callback
\* leaves the function.
PF_Except(ok) ==
  /\ pc = "f_except"
  /\ Commit(call_sink(Bundle, Failed(exc_msg), ok))
  /\ ret' = IF ok THEN "fail" ELSE "raised"
  /\ pc' = "exited"
  /\ UNCHANGED <<kind, via, url, method, exc_msg, youtube_result,
                 start_progress, temp_dir, rmtree_failed, audio,
                 progress_file, log, dl_last, worker, future,
                 last_pos, repolls>>
  /\ UNCHANGED <<vid_id, pool_vars, other_vars>>

\* ------------------------------------------------- the background wrappers
\* background_transcription and background_file_transcription: when the
\* pipeline raised, the wrapper emits an error event itself.
WrapperError ==
  IF via = "api"
  THEN [Data(100, "absent") EXCEPT
          !.complete = TRUE, !.success = FALSE, !.error = "raised"]
  ELSE [Data(100, "Error") EXCEPT !.status = "failed", !.error = "raised"]

BackgroundDone(ok) ==
  /\ pc = "exited"
  /\ pc' = "done"
  /\ IF ret = "raised"
     THEN LET S0 == Bundle
              S1 == IF via = "queue" /\ kind = "file"
                    THEN [S0 EXCEPT
                            !.tasks = update_progress(@, TaskId, WrapperError)]
                    ELSE S0
          IN Commit(Invoke(S1, WrapperError, IF ok THEN 0 ELSE 1,
                           [invocations |-> 1, delivered |-> ok,
                            sleeps |-> << >>, raised |-> ~ok]))
     ELSE ok /\ UnchangedBundle
  /\ UNCHANGED <<kind, via, url, method, exc_msg, youtube_result,
                 start_progress, temp_dir, rmtree_failed, audio,
                 progress_file, log, dl_last, worker, future,
                 last_pos, repolls, ret>>
  /\ UNCHANGED <<vid_id, pool_vars, other_vars>>

\* -------------------------------------------------------------------- Next
Next ==
  \/ \E v \in {"api", "queue"}, u \in Urls, m \in Methods : SubmitUrl(v, u, m)
  \/ \E v \in {"api", "queue"} : SubmitFile(v)
  \/ PT_Start
  \/ \E f \in FailCounts, p \in {"ok", "fail"} : PT_Fetch(f, p)
  \/ \E f \in FailCounts, s \in SaveOutcomes : PT_YouTubeOnly(f, s)
  \/ PT_Audio
  \/ \E p \in Pcts, f \in FailCounts : PT_Hook(p, f)
  \/ \E f1 \in FailCounts, f2 \in FailCounts : PT_DownloadOk(f1, f2)
  \/ PT_DownloadFail
  \/ \E l \in Lines : WorkerAppend(l)
  \/ \E ok \in BOOLEAN : WorkerReturn(ok)
  \/ WorkerCrash
  \/ PT_PollBegin
  \/ \E f \in FailCounts : PT_ReadLine(f)
  \/ PT_PollEnd
  \/ \E f \in FailCounts, s \in SaveOutcomes : PT_Result(f, s)
  \/ \E f \in FailCounts : PT_Except(f)
  \/ \E r \in BOOLEAN : PT_Finally(r)
  \/ \E ok \in BOOLEAN : PF_Start(ok)
  \/ \E stop \in 0 .. (MaxLines + 2) : PF_Poll(stop)
  \/ \E s \in SaveOutcomes, ok \in BOOLEAN, r \in BOOLEAN : PF_Result(s, ok, r)
  \/ \E ok \in BOOLEAN : PF_Except(ok)
  \/ \E ok \in BOOLEAN : BackgroundDone(ok)

Spec == Init /\ [][Next]_vars

\* ------------------------------------- several tasks and the worker pool
\* The queue route starts one background task per URL; every pipeline hands
\* its transcription to the one process pool of the manager.  Each pipeline
\* is reduced to the steps that touch the pool; the provider, the delivery
\* loop and the cleanup are the ones followed step by step above.
pipeline_vars ==
  <<pc, kind, via, url, method, exc_msg, stored, saves, youtube_result,
    start_progress, temp_dir, rmtree_failed, audio, progress_file, log,
    dl_last, worker, future, last_pos, repolls, emitted, termInv,
    termOk, sinkLast, sinkLines, sinkTook, delivery, ret, vid_id>>

single_vars == <<pipeline_vars, other_vars>>

ValidUrl == CHOOSE u \in Urls : extract_video_id(u) # NoId

\* MaxTasks tasks are about to be added to the queue; the pool is idle.
PoolInit ==
  /\ url = << >>
  /\ tasks = [t \in TaskIds |-> NoSnapshot]
  /\ stage = [t \in TaskIds |-> "new"]
  /\ whisper_pending = << >>
  /\ whisper_running = {}
  /\ futures = [t \in TaskIds |-> "none"]
  /\ polls = [t \in TaskIds |-> 0]
  /\ InitOther

\* queue_routes.add_to_queue, lines 204-224: the pending snapshot is stored
\* and the background task is started.
add_to_queue(t, m) ==
  /\ stage[t] = "new"
  /\ tasks' = update_progress(tasks, t, Queued(ValidUrl, m))
  /\ stage' = [stage EXCEPT ![t] = "started"]
  /\ UNCHANGED <<whisper_pending, whisper_running, futures, polls>>
  /\ UNCHANGED single_vars

\* Lines 493-510: the download; a failure ends the task in the except clause.
Q_Download(t, ok) ==
  /\ stage[t] = "started"
  /\ IF ok
     THEN /\ stage' = [stage EXCEPT ![t] = "downloaded"]
          /\ tasks' = update_progress(tasks, t,
                                      Data(30, "Starting transcription..."))
     ELSE /\ stage' = [stage EXCEPT ![t] = "done"]
          /\ tasks' = update_progress(tasks, t,
                                      Error("Failed to download audio"))
  /\ UNCHANGED <<whisper_pending, whisper_running, futures, polls>>
  /\ UNCHANGED single_vars

\* Lines 516-524: the job is submitted to _whisper_pool.
Q_Submit(t) ==
  /\ stage[t] = "downloaded"
  /\ whisper_pending' = Append(whisper_pending, t)
  /\ futures' = [futures EXCEPT ![t] = "pending"]
  /\ stage' = [stage EXCEPT ![t] = "relay"]
  /\ UNCHANGED <<tasks, whisper_running, polls>>
  /\ UNCHANGED single_vars

\* The pool starts a pending job whether or not a worker process is free.
PoolStart_IgnoresCapacity ==
  /\ whisper_pending # << >>
  /\ whisper_running' = whisper_running \cup {Head(whisper_pending)}
  /\ whisper_pending' = Tail(whisper_pending)
  /\ futures' = [futures EXCEPT ![Head(whisper_pending)] = "running"]
  /\ UNCHANGED <<tasks, stage, polls>>
  /\ UNCHANGED single_vars

\* A free worker process of the pool takes the oldest pending job.
PoolStart ==
  /\ whisper_pending # << >>
  /\ Cardinality(whisper_running) < whisper_workers
  /\ whisper_running' = whisper_running \cup {Head(whisper_pending)}
  /\ whisper_pending' = Tail(whisper_pending)
  /\ futures' = [futures EXCEPT ![Head(whisper_pending)] = "running"]
  /\ UNCHANGED <<tasks, stage, polls>>
  /\ UNCHANGED single_vars

\* The slot is kept after the job has returned.
PoolFinish_KeepsSlot(t, ok) ==
  /\ t \in whisper_running
  /\ futures[t] = "running"
  /\ futures' = [futures EXCEPT ![t] = IF ok THEN "ok" ELSE "fail"]
  /\ UNCHANGED <<tasks, stage, polls, whisper_pending, whisper_running>>
  /\ UNCHANGED single_vars

\* _transcribe_in_process returns (lines 146-157, or 163-167 after an
\* exception); the worker process is free again.
PoolFinish(t, ok) ==
  /\ t \in whisper_running
  /\ whisper_running' = whisper_running \ {t}
  /\ futures' = [futures EXCEPT ![t] = IF ok THEN "ok" ELSE "fail"]
  /\ UNCHANGED <<tasks, stage, polls, whisper_pending>>
  /\ UNCHANGED single_vars

\* Lines 528-573: an iteration of the relay loop while the future is not
\* done; it ends in gevent.sleep(0.1), which yields to the other tasks.
Q_Poll(t) ==
  /\ stage[t] = "relay"
  /\ futures[t] \in {"pending", "running"}
  /\ polls' = [polls EXCEPT ![t] = 1 - @]
  /\ UNCHANGED <<tasks, stage, whisper_pending, whisper_running, futures>>
  /\ UNCHANGED single_vars

\* Lines 575-596: the future is done; the terminal event is sent.
Q_Result(t) ==
  /\ stage[t] = "relay"
  /\ futures[t] \in {"ok", "fail"}
  /\ tasks' = update_progress(tasks, t,
                              IF futures[t] = "ok"
                              THEN Complete("null", "wh_text")
                              ELSE Error("worker error"))
  /\ stage' = [stage EXCEPT ![t] = "done"]
  /\ UNCHANGED <<whisper_pending, whisper_running, futures, polls>>
  /\ UNCHANGED single_vars

PoolNext ==
  \/ \E t \in TaskIds, m \in {"Whisper", "Both"} : add_to_queue(t, m)
  \/ \E t \in TaskIds, ok \in BOOLEAN : Q_Download(t, ok)
  \/ \E t \in TaskIds : Q_Submit(t)
  \/ PoolStart
  \/ \E t \in TaskIds, ok \in BOOLEAN : PoolFinish(t, ok)
  \/ \E t \in TaskIds : Q_Poll(t)
  \/ \E t \in TaskIds : Q_Result(t)

\* Every worker run terminates, the pool starts pending jobs, and gevent
\* gives every background task its turn.
PoolFairness ==
  /\ WF_vars(PoolStart)
  /\ \A t \in TaskIds :
       /\ WF_vars(\E ok \in BOOLEAN : PoolFinish(t, ok))
       /\ WF_vars(\E ok \in BOOLEAN : Q_Download(t, ok))
       /\ WF_vars(Q_Submit(t))
       /\ WF_vars(Q_Result(t))

SpecPool == PoolInit /\ [][PoolNext]_vars /\ PoolFairness

\* ---------------------------------------- a worker that never returns
\* The URL pipeline with a worker process that writes its first lines and
\* then hangs: no step produces the result of the future.  The sink returns
\* at once and the removal of the directory succeeds.
PipelineStep ==
  \/ PT_Start
  \/ \E p \in {"ok", "fail"} : PT_Fetch(0, p)
  \/ PT_YouTubeOnly(0, "ok")
  \/ PT_Audio
  \/ \E p \in Pcts : PT_Hook(p, 0)
  \/ PT_DownloadOk(0, 0)
  \/ PT_DownloadFail
  \/ PT_PollBegin
  \/ PT_ReadLine(0)
  \/ PT_PollEnd
  \/ PT_Except(0)
  \/ PT_Finally(TRUE)
  \/ BackgroundDone(TRUE)

HangNext ==
  \/ \E v \in {"api", "queue"}, u \in Urls, m \in Methods : SubmitUrl(v, u, m)
  \/ \E l \in Lines : WorkerAppend(l)
  \/ PipelineStep

\* The pipeline is a sequential program that runs whenever it can; the
\* worker writes what it has to write before it hangs.
HangFairness ==
  /\ WF_vars(PipelineStep)
  /\ WF_vars(\E l \in Lines : WorkerAppend(l))

SpecHang == Init /\ [][HangNext]_vars /\ HangFairness

\* ------------------------------------------------ extract_video_id alone
\* The links a caller may submit: a scheme and host part, one of the four
\* link shapes or another site, an identifier, and optional parameters
\* after &, ? or #; a parameter value may itself hold a link.
UrlHosts == {"https://www.", "https://", "http://m."}

VideoIds == {"abc123", "dQw4w9WgXcQ"}

UrlParams ==
  {<<"t=1">>, <<"feature=youtu.be">>, <<"ref=", "youtu.be/", "zzz">>}

UrlSuffixes ==
  {<< >>} \cup {<<d>> \o q : d \in {"&", "?", "#"}, q \in UrlParams}

SupportedUrls ==
  {<<h, p, i>> \o x : h \in UrlHosts, p \in Prefixes1 \cup Prefixes2,
                      i \in VideoIds, x \in UrlSuffixes}

OtherUrls ==
  {<<h, i>> \o x : h \in {"https://example.com/", "https://vimeo.com/"},
                   i \in VideoIds, x \in {<< >>, <<"?", "t=1">>}}

UrlInit == url \in SupportedUrls \cup OtherUrls /\ OneTask /\ InitOther

\* extract_video_id is called on the URL (line 473), and once more.
ExtractId ==
  /\ pc \in {"new", "extracted"}
  /\ pc' = IF pc = "new" THEN "extracted" ELSE "again"
  /\ vid_id' = extract_video_id(url)
  /\ UNCHANGED <<kind, via, url, method, exc_msg, tasks, stored, saves,
                 youtube_result, start_progress, temp_dir, rmtree_failed,
                 audio, progress_file, log, dl_last, worker, future,
                 last_pos, repolls, emitted, termInv, termOk, sinkLast,
                 sinkLines, sinkTook, delivery, ret, pool_vars,
                 other_vars>>

SpecUrl == UrlInit /\ [][ExtractId]_vars

\* ========================================================= the result store
\* transcription_results/ holds one file <task id>.json per saved result.
\* The files are written by save_transcription_result (followed above for
\* one task) and read, listed and removed by the three calls below.  Saves
\* of different tasks happen at different times of the wall clock.
StoredIds == 1 .. MaxStored

\* time.strftime('%Y-%m-%d %H:%M:%S') (lines 318 and 664): zero-padded
\* fields, most significant first.  The clock starts two seconds before a
\* full minute; a timestamp is <<minute, tens of seconds, seconds>>.
FirstSecond == 58

strftime(t) ==
  LET s == FirstSecond + t
  IN <<s \div 60, (s % 60) \div 10, s % 10>>

\* Python's < on strings: by the first position that differs, a proper
\* prefix being smaller.
RECURSIVE StrLess(_, _)
StrLess(a, b) ==
  IF b = << >> THEN FALSE
  ELSE IF a = << >> THEN TRUE
  ELSE IF Head(a) # Head(b) THEN Head(a) < Head(b)
  ELSE StrLess(Tail(a), Tail(b))

NoFile == [content |-> "none", completed_at |-> << >>]

\* json.load succeeds on a file that was written completely.
Readable(file) == file.content = "full"

\* The orders in which glob('*.json') may yield the files of the directory.
GlobOrders(dir) ==
  LET present == {t \in DOMAIN dir : dir[t].content # "none"}
      n == Cardinality(present)
  IN {o \in [1 .. n -> present] : \A i, j \in 1 .. n : i # j => o[i] # o[j]}

\* Lines 683-692.
get_transcription_result(dir, task_id) ==
  IF dir[task_id].content # "none" /\ Readable(dir[task_id])
  THEN [task_id |-> task_id, completed_at |-> dir[task_id].completed_at]
  ELSE "None"

\* Lines 696-704: the readable files, in the order of the glob, each with
\* the stem of its file name as task_id.
RECURSIVE ReadAll(_, _)
ReadAll(dir, order) ==
  IF order = << >> THEN << >>
  ELSE LET t == Head(order)
           rest == ReadAll(dir, Tail(order))
       IN IF Readable(dir[t])
          THEN <<[task_id |-> t, completed_at |-> dir[t].completed_at]>>
               \o rest
          ELSE rest

\* x.get('completed_at', '').
SortKey(x) == x.completed_at

\* sorted(...) without reverse=True: ascending.
RECURSIVE InsertDescending_Ascending(_, _)
InsertDescending_Ascending(sorted, x) ==
  IF sorted = << >> THEN <<x>>
  ELSE IF StrLess(SortKey(x), SortKey(Head(sorted)))
       THEN <<x>> \o sorted
       ELSE <<Head(sorted)>> \o InsertDescending_Ascending(Tail(sorted), x)

\* sorted(..., reverse=True) is stable: x goes behind every entry whose key
\* is not smaller than its own.
RECURSIVE InsertDescending(_, _)
InsertDescending(sorted, x) ==
  IF sorted = << >> THEN <<x>>
  ELSE IF StrLess(SortKey(Head(sorted)), SortKey(x))
       THEN <<x>> \o sorted
       ELSE <<Head(sorted)>> \o InsertDescending(Tail(sorted), x)

RECURSIVE SortedDescending(_, _)
SortedDescending(done, todo) ==
  IF todo = << >> THEN done
  ELSE SortedDescending(InsertDescending(done, Head(todo)), Tail(todo))

\* Lines 694-705.
get_all_results(dir, order) == SortedDescending(<< >>, ReadAll(dir, order))

\* The counter is increased before the unlink: failed removals count too.
clear_completed_results_CountsFailures(dir, failing) ==
  LET removed ==
        {t \in DOMAIN dir : dir[t].content # "none" /\ t \notin failing}
  IN [dir |-> [t \in DOMAIN dir |-> IF t \in removed THEN NoFile ELSE dir[t]],
      count |-> Cardinality({t \in DOMAIN dir : dir[t].content # "none"})]

\* Lines 712-722: the files whose unlink does not raise are removed and
\* counted.
clear_completed_results(dir, failing) ==
  LET removed ==
        {t \in DOMAIN dir : dir[t].content # "none" /\ t \notin failing}
  IN [dir |-> [t \in DOMAIN dir |-> IF t \in removed THEN NoFile ELSE dir[t]],
      count |-> Cardinality(removed)]

NoReturn ==
  [op |-> "none", id |-> 0, count |-> 0, failed |-> {}, value |-> << >>]

StoreInit ==
  /\ results_dir = [t \in StoredIds |-> NoFile]
  /\ store_ret = NoReturn
  /\ wall = 0
  /\ url = << >>
  /\ OneTask
  /\ PipelineInit
  /\ DownloadIdle
  /\ RelayIdle
  /\ RegistryIdle

\* A second of the wall clock passes.
Store_Tick ==
  /\ wall < MaxWall
  /\ wall' = wall + 1
  /\ UNCHANGED <<results_dir, store_ret>>
  /\ UNCHANGED <<pipeline_vars, tasks, pool_vars, dl_vars, relay_vars,
                 accesses>>

\* A pipeline saves the result of task t (lines 651-681).  Nothing can be
\* read back from a file whose dump was cut short, its timestamp included.
Store_Save(t, outcome) ==
  /\ results_dir' =
       [results_dir EXCEPT
          ![t] = LET file == save_transcription_result(
                               @, [content |-> "none",
                                   completed_at |-> strftime(wall)],
                               outcome)
                 IN IF Readable(file) THEN file
                    ELSE [file EXCEPT !.completed_at = << >>]]
  /\ store_ret' = [NoReturn EXCEPT !.op = "save", !.id = t]
  /\ UNCHANGED wall
  /\ UNCHANGED <<pipeline_vars, tasks, pool_vars, dl_vars, relay_vars,
                 accesses>>

\* get_transcription_result (lines 683-692), called by /api/queue/result.
Store_Get(t) ==
  /\ store_ret' =
       [NoReturn EXCEPT !.op = "get", !.id = t,
                        !.value = <<get_transcription_result(results_dir, t)>>]
  /\ UNCHANGED <<results_dir, wall>>
  /\ UNCHANGED <<pipeline_vars, tasks, pool_vars, dl_vars, relay_vars,
                 accesses>>

\* get_all_results (lines 694-705), called by /api/queue/status.
Store_List(order) ==
  /\ order \in GlobOrders(results_dir)
  /\ store_ret' =
       [NoReturn EXCEPT !.op = "list",
                        !.value = get_all_results(results_dir, order)]
  /\ UNCHANGED <<results_dir, wall>>
  /\ UNCHANGED <<pipeline_vars, tasks, pool_vars, dl_vars, relay_vars,
                 accesses>>

\* clear_completed_results (lines 707-722), called by /api/queue/clear.
Store_Clear(failing) ==
  /\ LET r == clear_completed_results(results_dir, failing)
     IN /\ results_dir' = r.dir
        /\ store_ret' =
             [NoReturn EXCEPT
                !.op = "clear", !.count = r.count,
                !.failed = {t \in failing : results_dir[t].content # "none"}]
  /\ UNCHANGED wall
  /\ UNCHANGED <<pipeline_vars, tasks, pool_vars, dl_vars, relay_vars,
                 accesses>>

StoreNext ==
  \/ Store_Tick
  \/ \E t \in StoredIds, o \in {"ok", "raise_partial"} : Store_Save(t, o)
  \/ \E t \in StoredIds : Store_Get(t)
  \/ \E o \in GlobOrders(results_dir) : Store_List(o)
  \/ \E f \in SUBSET StoredIds : Store_Clear(f)

SpecStore == StoreInit /\ [][StoreNext]_vars

\* ============================================================ download_audio
\* download_audio(url, output_path, progress_cb), lines 377-444, on the
\* fresh directory process_transcription made for it.  The downloader
\* (yt_dlp with the options of get_yt_dlp_opts: format bestaudio/best,
\* output template <id>.<ext>, mp3 post-processing, source not kept) writes
\* the stream to <id>.<ext>.part, renames it to <id>.<ext> and converts it
\* to <id>.mp3; which of these files exist when it returns or raises is the
\* environment's choice.  The progress events of the hook are followed in
\* PT_Hook.
Destination == "audio.mp3"

Artifacts == {"id.mp3", "other.mp3", "id.webm", "id.m4a", "id.webm.part"}

FileNames == {Destination} \cup Artifacts

\* glob("*.mp3") and glob("*.webm") of lines 411, 438 and 440.
Glob(dir, ext) ==
  {n \in DOMAIN dir :
     /\ dir[n] # "absent"
     /\ IF ext = "mp3" THEN n \in {"audio.mp3", "id.mp3", "other.mp3"}
        ELSE n = "id.webm"}

\* What extract_info did: whether it raised DownloadError or returned no
\* info, and the files it left, an mp3 file being empty or not.
DownloaderOutcomes ==
  {[error |-> e, left |-> l, size |-> z] :
     e \in {"none", "DownloadError", "no info"},
     l \in SUBSET Artifacts, z \in {"data", "empty"}}

DownloadInit ==
  /\ dl_pc = "start"
  /\ dl_dir = [n \in FileNames |-> "absent"]
  /\ dl_err = "none"
  /\ dl_cleanup = "none"
  /\ url = << >>
  /\ OneTask
  /\ PipelineInit
  /\ StoreIdle
  /\ RelayIdle
  /\ RegistryIdle

\* shutil.move(src, output_path).
Move(dir, src) ==
  [dir EXCEPT ![Destination] = dir[src], ![src] = "absent"]

\* Lines 393-426: the download, the move of the mp3 file to the destination
\* and the final verification.
DA_Download(o, first) ==
  /\ dl_pc = "start"
  /\ LET d0 == [n \in FileNames |->
                  IF n \in o.left
                  THEN IF n \in {"id.mp3", "other.mp3"} THEN o.size
                       ELSE "data"
                  ELSE "absent"]
         mp3_files == Glob(d0, "mp3")
         moved == IF d0["id.mp3"] # "absent" THEN Move(d0, "id.mp3")
                  ELSE IF mp3_files # {} THEN Move(d0, first)
                  ELSE d0
         err == IF o.error = "DownloadError" THEN "Failed to download video"
                ELSE IF o.error = "no info"
                     THEN "Failed to extract video info"
                ELSE IF mp3_files = {}
                     THEN "Download completed but no MP3 file found"
                ELSE IF moved[Destination] = "empty"
                     THEN "Downloaded file is empty"
                ELSE "none"
     IN /\ d0["id.mp3"] = "absent" /\ mp3_files # {} => first \in mp3_files
        /\ d0["id.mp3"] # "absent" \/ mp3_files = {} => first = "id.mp3"
        /\ dl_dir' = IF o.error = "none" THEN moved ELSE d0
        /\ dl_err' = err
        /\ dl_pc' = IF err = "none" THEN "callback" ELSE "except"
  /\ UNCHANGED dl_cleanup
  /\ UNCHANGED <<pipeline_vars, tasks, pool_vars, store_vars, relay_vars,
                 accesses>>

\* Lines 428-429: the last progress event; the callback of the pipeline
\* (dl_cb, _send_progress) returns.
DA_Callback ==
  /\ dl_pc = "callback"
  /\ dl_pc' = "returned"
  /\ UNCHANGED <<dl_dir, dl_err, dl_cleanup>>
  /\ UNCHANGED <<pipeline_vars, tasks, pool_vars, store_vars, relay_vars,
                 accesses>>

\* Lines 431-444: the destination, the mp3 files and the webm files are
\* unlinked; an exception of an unlink ends the cleanup and is logged; then
\* RuntimeError("Failed to download audio: ...") is raised.
DA_Except(removed) ==
  /\ dl_pc = "except"
  /\ LET targets == Glob(dl_dir, "mp3") \cup Glob(dl_dir, "webm")
     IN /\ removed \subseteq targets
        /\ dl_dir' = [n \in FileNames |->
                        IF n \in removed THEN "absent" ELSE dl_dir[n]]
        /\ dl_cleanup' = IF removed = targets THEN "done" ELSE "failed"
  /\ dl_pc' = "raised"
  /\ UNCHANGED dl_err
  /\ UNCHANGED <<pipeline_vars, tasks, pool_vars, store_vars, relay_vars,
                 accesses>>

DownloadNext ==
  \/ \E o \in DownloaderOutcomes, f \in {"id.mp3", "other.mp3"} :
       DA_Download(o, f)
  \/ DA_Callback
  \/ \E r \in SUBSET FileNames : DA_Except(r)

SpecDownload == DownloadInit /\ [][DownloadNext]_vars

\* ===================================================== the relay, in detail
\* The relay loop of process_transcription (lines 526-573) with the two
\* things the steps PT_ReadLine and PT_PollEnd leave out: the worker's write
\* of a line may reach the file in two parts (write_update, lines 93-96, is
\* not synchronised with the reader), and time passes while the loop sleeps
\* and while _send_progress waits between two attempts.
\*
\* A line is written either at once or as a head, a proper prefix of its
\* JSON text, followed by the rest with the newline.  last_pos counts the
\* lines behind the read offset; inside says that the offset lies behind
\* the head of the next line.
MinInterval == 4   \* 2 seconds, in half seconds

RelayLines == {Line("debug", 0)} \cup {Line("progress", p) : p \in Pcts}

RECURSIVE SumSeq(_)
SumSeq(seq) == IF seq = << >> THEN 0 ELSE Head(seq) + SumSeq(Tail(seq))

\* The head of a line is appended: open, write and flush of a long line.
W_AppendHead(line) ==
  /\ worker = "running"
  /\ LogWritable
  /\ ~partial
  /\ Len(log) < MaxLines
  /\ line.pct >= MaxPct(log)
  /\ log' = Append(log, line)
  /\ partial' = TRUE
  /\ progress_file' = TRUE
  /\ UnchangedBundle
  /\ UNCHANGED <<pc, kind, via, url, method, exc_msg, youtube_result,
                 start_progress, temp_dir, rmtree_failed, audio, dl_last,
                 worker, future, last_pos, repolls, ret>>
  /\ UNCHANGED <<vid_id, pool_vars, store_vars, dl_vars, accesses>>
  /\ UNCHANGED <<inside, now, progress_at>>

\* The rest of the line and its newline are appended.
W_AppendRest ==
  /\ worker = "running"
  /\ partial
  /\ partial' = FALSE
  /\ UnchangedBundle
  /\ UNCHANGED <<pc, kind, via, url, method, exc_msg, youtube_result,
                 start_progress, temp_dir, rmtree_failed, audio,
                 progress_file, log, dl_last, worker, future, last_pos,
                 repolls, ret>>
  /\ UNCHANGED <<vid_id, pool_vars, store_vars, dl_vars, accesses>>
  /\ UNCHANGED <<inside, now, progress_at>>

\* What `for line in f` yields next: "line" (a whole line), "head" (the
\* file ends inside the line), "rest" (the offset was inside the line) or
\* "eof".
NextRead ==
  IF inside
  THEN IF partial /\ last_pos + 1 = Len(log) THEN "eof" ELSE "rest"
  ELSE IF last_pos = Len(log) THEN "eof"
  ELSE IF partial /\ last_pos + 1 = Len(log) THEN "head"
  ELSE "line"

\* Lines 533-568: the next line of the file.  A head and a rest are not
\* JSON texts: json.loads raises JSONDecodeError, the line is logged and
\* skipped.  A whole line is dispatched; the time _send_progress sleeps
\* between its attempts passes.
R_ReadLine(fails) ==
  /\ pc = "reading"
  /\ NextRead # "eof"
  /\ IF NextRead = "line"
     THEN LET line == log[last_pos + 1]
              S0 == Dispatch(Bundle, line, fails)
              S == IF Relayed(line)
                   THEN Consumed(FromLog(Bundle, S0, last_pos + 1),
                                 last_pos + 1)
                   ELSE S0
              slept == IF Relayed(line) THEN 2 * SumSeq(S.delivery.sleeps)
                       ELSE 0
          IN /\ now + slept <= MaxNow
             /\ Commit(S)
             /\ After(S, "reading")
             /\ now' = now + slept
             /\ progress_at' =
                  IF line.type = "progress"
                  THEN LastTwo(Append(progress_at,
                                      [first |-> now, last |-> now + slept]))
                  ELSE progress_at
             /\ last_pos' = last_pos + 1
             /\ UNCHANGED inside
     ELSE /\ UnchangedBundle
          /\ UNCHANGED <<pc, exc_msg, now, progress_at>>
          /\ inside' = (NextRead = "head")
          /\ last_pos' = IF NextRead = "rest" THEN last_pos + 1 ELSE last_pos
  /\ UNCHANGED <<kind, via, url, method, youtube_result, start_progress,
                 temp_dir, rmtree_failed, audio, progress_file, log, dl_last,
                 worker, future, repolls, ret>>
  /\ UNCHANGED <<vid_id, pool_vars, store_vars, dl_vars, accesses>>
  /\ UNCHANGED partial

\* Lines 569-573: the end of the file; last_pos = f.tell() and
\* gevent.sleep(0.5).
R_PollEnd ==
  /\ pc = "reading"
  /\ NextRead = "eof"
  /\ now < MaxNow
  /\ now' = now + 1
  /\ pc' = "relay"
  /\ UnchangedBundle
  /\ UNCHANGED <<kind, via, url, method, exc_msg, youtube_result,
                 start_progress, temp_dir, rmtree_failed, audio,
                 progress_file, log, dl_last, worker, future,
                 last_pos, repolls, ret>>
  /\ UNCHANGED <<vid_id, pool_vars, store_vars, dl_vars, accesses>>
  /\ UNCHANGED <<partial, inside, progress_at>>

\* A task with method Whisper is taken to its relay loop; the worker writes
\* and returns, the relay polls, and the pipeline ends with the result.
RelayNext ==
  \/ SubmitUrl("queue", ValidUrl, "Whisper")
  \/ PT_Start
  \/ PT_Audio
  \/ PT_DownloadOk(0, 0)
  \/ \E l \in RelayLines : ~partial /\ WorkerAppend(l)
  \/ \E l \in RelayLines : W_AppendHead(l)
  \/ W_AppendRest
  \/ ~partial /\ WorkerReturn(TRUE)
  \/ PT_PollBegin
  \/ \E f \in {0, 1} : R_ReadLine(f)
  \/ R_PollEnd
  \/ PT_Result(0, "ok")
  \/ PT_Finally(TRUE)
  \/ BackgroundDone(TRUE)

SpecRelay == Init /\ [][RelayNext]_vars

\* ==================================================== the registry in use
\* self.tasks as the queue routes and the pipelines of several tasks use it.
\* Every step is one call: a route handler, one _send_progress of a URL
\* pipeline, one progress_callback of a file pipeline.  The server runs the
\* handlers and the background tasks as greenlets (app.py, async_mode
\* 'gevent'), which give way only where they block, so the accesses of one
\* call are not interleaved with those of another; what is recorded of a
\* call is which accesses it made inside `with self._lock`.
RegIds == 1 .. MaxRegistered

Access(op, id, locked, value) ==
  [op |-> op, id |-> id, locked |-> locked, value |-> value]

\* `with self._lock:` around the accesses of its body.
WithLock(accs) == {[a EXCEPT !.locked = TRUE] : a \in accs}

\* Lines 209-212: the accesses of update_progress.
update_progress_accesses(task_id, progress_data) ==
  WithLock({Access("write", task_id, FALSE, progress_data)})

\* Lines 214-220: get_progress, NoSnapshot standing for None.
get_progress(reg, task_id) == reg[task_id]

\* Lines 604-628: the accesses of one _send_progress: the update, and for a
\* successful terminal event the two lookups of lines 625-626.
send_progress_accesses(task_id, ev) ==
  update_progress_accesses(task_id, ev)
    \cup (IF ev.complete /\ ev.success
          THEN {Access("read", task_id, FALSE, NoSnapshot)} ELSE {})

\* No task was added yet, the result store is empty.
RegistryInit ==
  /\ tasks = [t \in RegIds |-> NoSnapshot]
  /\ stage = [t \in RegIds |-> "new"]
  /\ results_dir = [t \in RegIds |-> NoFile]
  /\ store_ret = NoReturn
  /\ accesses = {}
  /\ wall = 0
  /\ url = << >>
  /\ whisper_pending = << >>
  /\ whisper_running = {}
  /\ futures = << >>
  /\ polls = << >>
  /\ PipelineInit
  /\ DownloadIdle
  /\ RelayIdle

\* What a step of the registry leaves alone.
RegistryFrame ==
  UNCHANGED <<pipeline_vars, whisper_pending, whisper_running, futures,
              polls, wall, dl_vars, relay_vars>>

\* queue_routes.add_to_queue, lines 204-217.
R_AddUrl(t, m) ==
  /\ stage[t] = "new"
  /\ tasks' = update_progress(tasks, t, Queued(ValidUrl, m))
  /\ accesses' = update_progress_accesses(t, Queued(ValidUrl, m))
  /\ stage' = [stage EXCEPT ![t] = "url"]
  /\ store_ret' = NoReturn
  /\ UNCHANGED results_dir
  /\ RegistryFrame

\* queue_routes.add_files_to_queue, lines 82-99.
R_AddFile(t) ==
  /\ stage[t] = "new"
  /\ tasks' = update_progress(tasks, t, QueuedFile)
  /\ accesses' = update_progress_accesses(t, QueuedFile)
  /\ stage' = [stage EXCEPT ![t] = "file"]
  /\ store_ret' = NoReturn
  /\ UNCHANGED results_dir
  /\ RegistryFrame

\* The file a save leaves in the result store.
Saved(file, outcome) ==
  LET new == save_transcription_result(
               file, [content |-> "none", completed_at |-> strftime(wall)],
               outcome)
  IN IF Readable(new) \/ new = file THEN new
     ELSE [new EXCEPT !.completed_at = << >>]

\* One _send_progress of the pipeline of a URL task (lines 604-628).  When
\* the save raises, the call ends there and the except clause of the
\* pipeline is entered.
R_SendProgress(t, ev, save) ==
  /\ stage[t] = "url"
  /\ tasks' = update_progress(tasks, t, ev)
  /\ accesses' = send_progress_accesses(t, ev)
  /\ results_dir' = IF ev.complete /\ ev.success
                    THEN [results_dir EXCEPT ![t] = Saved(@, save)]
                    ELSE results_dir
  /\ stage' = [stage EXCEPT
                 ![t] = IF ~Terminal(ev) THEN "url"
                        ELSE IF ev.success /\ save_raises(save) THEN "except"
                        ELSE "done"]
  /\ store_ret' = NoReturn
  /\ RegistryFrame

\* Lines 593-596: the Error event of the except clause.
R_Except(t) ==
  /\ stage[t] = "except"
  /\ tasks' = update_progress(tasks, t, Error("save"))
  /\ accesses' = send_progress_accesses(t, Error("save"))
  /\ stage' = [stage EXCEPT ![t] = "done"]
  /\ store_ret' = NoReturn
  /\ UNCHANGED results_dir
  /\ RegistryFrame

\* One event of the pipeline of a file task of the queue: the save of line
\* 324 before the completed event, and progress_callback (queue_routes,
\* lines 132-139), which stores the event.  When the save raises, the
\* callback is called with the failed event of lines 366-374 instead.
R_Callback(t, ev, save) ==
  /\ stage[t] = "file"
  /\ LET saved == ev.complete /\ ev.success
         data == IF saved /\ save_raises(save)
                 THEN Failed("save") ELSE ev
     IN /\ tasks' = update_progress(tasks, t, data)
        /\ accesses' = update_progress_accesses(t, data)
        /\ results_dir' = IF saved
                          THEN [results_dir EXCEPT ![t] = Saved(@, save)]
                          ELSE results_dir
  /\ stage' = [stage EXCEPT ![t] = IF Terminal(ev) THEN "done" ELSE "file"]
  /\ store_ret' = NoReturn
  /\ RegistryFrame

\* get_progress (lines 214-220): the lookup is made inside the lock.
R_GetProgress(t) ==
  /\ accesses' = WithLock({Access("read", t, FALSE, NoSnapshot)})
  /\ store_ret' = [NoReturn EXCEPT !.op = "get_progress", !.id = t,
                                   !.value = get_progress(tasks, t)]
  /\ UNCHANGED <<tasks, stage, results_dir>>
  /\ RegistryFrame

\* The keys of self.tasks whose task.get('status', 'unknown') is one of the
\* given statuses.
WithStatus(reg, statuses) ==
  {t \in DOMAIN reg : reg[t].present /\ reg[t].status \in statuses}

\* queue_routes.queue_status, lines 237-268: the registry is copied by a
\* comprehension over manager.tasks.items(), the statuses are counted and
\* the stored results are listed (here: the ids of the readable files).
R_Status ==
  /\ accesses' = {Access("iterate", 0, FALSE, NoSnapshot)}
  /\ store_ret' =
       [NoReturn EXCEPT
          !.op = "status",
          !.value =
             [pending |-> Cardinality(WithStatus(tasks, {"pending"})),
              processing |-> Cardinality(WithStatus(tasks, {"processing"})),
              completed |-> Cardinality(WithStatus(tasks, {"completed"})),
              failed |-> Cardinality(WithStatus(tasks, {"failed"})),
              results |-> {t \in RegIds : Readable(results_dir[t])}]]
  /\ UNCHANGED <<tasks, stage, results_dir>>
  /\ RegistryFrame

\* queue_routes.clear_queue, lines 338-362: the entries whose status is
\* 'completed' or 'failed' are popped, then the result files are removed;
\* the unlink of the files in failing raises.
clear_queue(reg) ==
  [t \in DOMAIN reg |->
     IF t \in WithStatus(reg, {"completed", "failed"}) THEN NoSnapshot
     ELSE reg[t]]

R_Clear(failing) ==
  /\ LET popped == WithStatus(tasks, {"completed", "failed"})
         cleared == clear_completed_results(results_dir, failing)
     IN /\ tasks' = clear_queue(tasks)
        /\ accesses' =
             {Access("iterate", 0, FALSE, NoSnapshot)}
               \cup {Access("pop", t, FALSE, NoSnapshot) : t \in popped}
        /\ results_dir' = cleared.dir
        /\ store_ret' =
             [NoReturn EXCEPT
                !.op = "clear_queue",
                !.count = Cardinality(popped) + cleared.count,
                !.failed = failing]
  /\ UNCHANGED stage
  /\ RegistryFrame

RegistryNext ==
  \/ \E t \in RegIds, m \in {"YouTube", "Both"} : R_AddUrl(t, m)
  \/ \E t \in RegIds : R_AddFile(t)
  \/ \E t \in RegIds, s \in {"ok", "raise_before"},
        ev \in {Data(0, "Fetching YouTube transcript..."),
                Complete("yt_text", "absent"), Error("worker error")} :
       R_SendProgress(t, ev, s)
  \/ \E t \in RegIds : R_Except(t)
  \/ \E t \in RegIds, s \in {"ok", "raise_before"},
        ev \in {Started, Completed, Failed("worker error")} :
       R_Callback(t, ev, s)
  \/ \E t \in RegIds : R_GetProgress(t)
  \/ R_Status
  \/ \E failing \in SUBSET RegIds : R_Clear(failing)

SpecRegistry == RegistryInit /\ [][RegistryNext]_vars

\* ================================================================== claims
Exited == pc \in {"exited", "done"}

Snapshot == tasks[TaskId]

\* C1: every submitted task has its sink invoked with at least one terminal
\* event (complete = true), whatever the URL, the method and the outcomes
\* of the provider, the download and the worker.  Stated on the finished
\* task: when the background task is done, a terminal event was handed to
\* the sink at least once.
C1_TerminalEventForEveryTask == pc = "done" => termInv >= 1

\* C2: once the registry snapshot of a URL task is terminal (complete = true)
\* no later step changes it; a task recorded as Completed is never
\* afterwards recorded as Failed.
C2_TerminalSnapshotImmutable ==
  [][(kind = "url" /\ Snapshot.present /\ Snapshot.complete)
       => tasks' = tasks]_vars

\* C3: in the URL pipeline every progress value handed to the sink lies in
\* 0..100 and the values are non-decreasing: of any two consecutive values
\* the later one is not smaller.
C3_ProgressMonotone ==
  kind = "url" =>
    /\ \A i \in 1 .. Len(emitted) : emitted[i] \in 0 .. 100
    /\ Len(emitted) = 2 => emitted[1] <= emitted[2]

\* C3 witness: method Both with a provider transcript (start offset 30), the
\* worker reported 50 percent (60 + 20 = 80), then the terminal event.
C3_Witness ==
  /\ kind = "url" /\ pc = "done" /\ method = "Both"
  /\ start_progress = 30
  /\ emitted = <<80, 100>>

\* C4: when the pipeline of a URL task has exited, the progress recorded for
\* the task in the registry is exactly 100.
C4_FinalProgressIs100 ==
  (kind = "url" /\ Exited) => Snapshot.progress = 100

C6_TerminalEventTwice == (pc = "done" /\ termInv >= 1) => termInv >= 2

\* C7: a raising sink never makes the task fail: no exception of the sink is
\* propagated as the exception of the pipeline, the pipeline does not raise,
\* and a task whose result was stored ends as a success in its return value
\* and in the registry, exactly as when every delivery succeeds.
C7_DeliveryNeverEscalates ==
  pc = "done" =>
    /\ exc_msg # "sink"
    /\ ret # "raised"
    /\ stored.content = "full" =>
         /\ ret \in {"success", "none"}
         /\ (Snapshot.present /\ Snapshot.complete) => Snapshot.success

\* C8: for a non-terminal event the delivery loop invokes the sink at most 3
\* times, stops at the first invocation that returns, sleeps 1, 2, ...
\* (doubling) between failed attempts and returns normally after 3 failures.
C8_OrdinaryDelivery ==
  (kind = "url" /\ delivery.invocations > 0 /\ ~Terminal(delivery.ev)) =>
    /\ delivery.invocations <= 3
    /\ delivery.delivered <=> delivery.fails < 3
    /\ delivery.delivered => delivery.invocations = delivery.fails + 1
    /\ ~delivery.delivered => delivery.invocations = 3
    /\ Len(delivery.sleeps) = delivery.invocations - 1
    /\ \A i \in 1 .. Len(delivery.sleeps) :
         delivery.sleeps[i] = IF i = 1 THEN 1 ELSE 2 * delivery.sleeps[i - 1]
    /\ ~delivery.raised
    /\ exc_msg # "sink"

\* C8 witness: the fetch event was refused three times; the loop slept 1 and
\* 2 seconds, gave up, and the pipeline went on to the audio phase.
C8_Witness ==
  /\ kind = "url" /\ pc = "audio"
  /\ delivery.ev = Data(0, "Fetching YouTube transcript...")
  /\ delivery.fails >= 3
  /\ delivery.invocations = 3 /\ ~delivery.delivered
  /\ delivery.sleeps = <<1, 2>>

\* C9: a terminal event is attempted up to 5 times: when the sink raises on
\* attempts 1 to 4 and returns on attempt 5, the event is delivered.
C9_TerminalFiveAttempts ==
  (kind = "url" /\ Terminal(delivery.ev) /\ delivery.fails = 4) =>
    (delivery.delivered /\ delivery.invocations = 5)

\* C10: with method YouTube and a failing provider the task ends Failed: the
\* registry records complete = true, success = false and an error, and the
\* sink was invoked with a terminal event.
C10_SoleProviderFailureIsFatal ==
  (kind = "url" /\ Exited /\ method = "YouTube" /\ youtube_result = "fail") =>
    /\ Snapshot.present /\ Snapshot.complete /\ ~Snapshot.success
    /\ Snapshot.error # "absent"
    /\ termInv >= 1

\* C11 (as stated): with method YouTube and a provider that succeeds, the sink
\* is handed exactly one terminal event, the Complete event with progress 100,
\* success and the provider's text; no download, worker or temporary
\* directory is ever involved.
ProviderOnly == kind = "url" /\ method = "YouTube" /\ youtube_result = "ok"

NothingAllocated ==
  /\ pc \notin {"audio", "download", "relay", "reading"}
  /\ temp_dir = "unset" /\ ~audio /\ ~progress_file
  /\ worker = "none" /\ future = NoFuture

OneTerminalEvent ==
  /\ Terminal(sinkLast)
  /\ delivery.ev = sinkLast
  /\ termInv = delivery.invocations

C11_ProviderOnlyShortCircuit ==
  ProviderOnly =>
    /\ NothingAllocated
    /\ pc = "done" =>
         (OneTerminalEvent /\ sinkLast = Complete("yt_text", "absent"))

\* C11 (amended): as above, except that when saving the result raises the one
\* terminal event is the Error event of the except clause instead.
C11_ProviderOnlyShortCircuitUnlessSaveRaises ==
  ProviderOnly =>
    /\ NothingAllocated
    /\ pc = "done" =>
         /\ OneTerminalEvent
         /\ sinkLast = IF exc_msg = "save" THEN Error("save")
                       ELSE Complete("yt_text", "absent")

\* C11 witness: the short circuit ended with the Complete event delivered at
\* the first attempt and the provider's text stored.
C11_Witness ==
  /\ ProviderOnly /\ pc = "done" /\ exc_msg = "none"
  /\ sinkLast = Complete("yt_text", "absent")
  /\ delivery.delivered /\ termInv = 1 /\ stored.yt = "yt_text"
  /\ temp_dir = "unset"

\* C12 (as stated): when the worker returned a result with success = false,
\* the last event the sink was invoked with is terminal with success = false
\* and an error string, the temporary directory and progress log are gone,
\* and no result file exists.
WorkerFailed == future.done /\ ~future.success /\ ~future.raised

BothProviderFailed == kind = "url" /\ method = "Both" /\ youtube_result = "fail"

WorkerResultRead == future.done /\ future.success /\ exc_msg # "KeyError"

CompletedWhisperOnly ==
  /\ Snapshot.present /\ Snapshot.complete /\ Snapshot.success
  /\ Snapshot.wh = "wh_text" /\ Snapshot.yt = "null"
  /\ sinkLast = Complete("null", "wh_text")

C13_ProviderFailureNotFatal ==
  BothProviderFailed =>
    /\ pc \in {"except", "finally", "exited", "done"} => temp_dir # "unset"
    /\ (pc = "done" /\ WorkerResultRead) => CompletedWhisperOnly

\* C13 (amended): the same, provided saving the result does not raise; when
\* it raises the task ends Failed with the Error event.
C13_ProviderFailureNotFatalUnlessSaveRaises ==
  BothProviderFailed =>
    /\ pc \in {"except", "finally", "exited", "done"} => temp_dir # "unset"
    /\ (pc = "done" /\ WorkerResultRead) =>
         IF exc_msg = "save"
         THEN /\ Snapshot = Error("save") /\ sinkLast = Error("save")
         ELSE CompletedWhisperOnly

\* C13 witness: provider failed, download and worker succeeded, the result
\* was saved with the worker's text only and the task ended Completed.
C13_Witness ==
  /\ BothProviderFailed /\ pc = "done" /\ WorkerResultRead
  /\ CompletedWhisperOnly /\ start_progress = 0 /\ temp_dir = "removed"
  /\ stored.content = "full" /\ stored.wh = "wh_text" /\ stored.yt = "null"

\* C14: a URL task whose URL yields no identifier never queries the provider,
\* never creates the temporary directory, never starts a download or a
\* worker, and ends with exactly one terminal event, the Error event.
InvalidUrl == kind = "url" /\ pc # "new" /\ extract_video_id(url) = NoId

C14_InvalidUrlFailsEarly ==
  InvalidUrl =>
    /\ pc \in {"start", "except", "finally", "exited", "done"}
    /\ youtube_result = "unset"
    /\ temp_dir = "unset" /\ ~audio /\ ~progress_file /\ dl_last = 0
    /\ worker = "none" /\ future = NoFuture
    /\ pc = "done" =>
         /\ OneTerminalEvent
         /\ sinkLast = Error("Invalid YouTube URL")
         /\ Snapshot = Error("Invalid YouTube URL")

\* C14 witness: the invalid URL was rejected and the Error event delivered.
C14_Witness ==
  /\ InvalidUrl /\ pc = "done" /\ method = "Both"
  /\ exc_msg = "Invalid YouTube URL"
  /\ sinkLast = Error("Invalid YouTube URL") /\ delivery.delivered
  /\ youtube_result = "unset" /\ temp_dir = "unset" /\ worker = "none"

\* C15: with more tasks than worker processes, under fair scheduling and
\* terminating worker runs, every submitted task eventually has a terminal
\* snapshot; at no time do more jobs run than the pool has workers, and a
\* task whose job is pending or running stays in its relay loop.
C15_NoDeadlockBeyondCapacity ==
  /\ \A t \in TaskIds :
       (stage[t] # "new") ~> (stage[t] = "done" /\ tasks[t].complete)
  /\ [](/\ Cardinality(whisper_running) <= whisper_workers
        /\ \A t \in TaskIds :
             futures[t] \in {"pending", "running"} => stage[t] = "relay")

\* C15 witness: one job is running, the job of a second task is pending and
\* that task's relay loop has polled and yielded.
C15_Witness ==
  /\ Cardinality(whisper_running) = whisper_workers
  /\ \E t \in TaskIds :
       /\ t \notin whisper_running
       /\ futures[t] = "pending" /\ stage[t] = "relay" /\ polls[t] = 1

\* C16: once a worker job is running and never returns, the task eventually
\* ends in the terminal Failed state (complete, not successful, with an
\* error delivered to the sink) and its temporary directory is gone.
C16_BoundedWorkerWait ==
  (kind = "url" /\ worker = "running") ~>
    /\ Exited
    /\ Snapshot.present /\ Snapshot.complete /\ ~Snapshot.success
    /\ Snapshot.error # "absent" /\ termOk >= 1
    /\ temp_dir # "exists"

\* C17: for a link of one of the four supported shapes, with or without
\* parameters after &, ? or #, extract_video_id returns the identifier the
\* link refers to; for any other URL it returns none; a second call on the
\* same URL returns the same value.
ReferencedId(u) ==
  IF u[2] \in Prefixes1 \cup Prefixes2 THEN <<u[3]>> ELSE NoId

C17_SameIdForAllShapes ==
  pc \in {"extracted", "again"} => vid_id = ReferencedId(url)

\* C18: from the moment a task is submitted, by any of the submission
\* paths, the registry holds a snapshot for its id; right after submission
\* the snapshot is the pending one with progress 0.
C18_RegistryEntryFromSubmission ==
  pc # "new" =>
    /\ Snapshot.present
    /\ pc = "start" => (Snapshot.status = "pending" /\ Snapshot.progress = 0)

\* C19: a result file exists only for a task that succeeded, and it was
\* opened for writing exactly once.
TaskFailed == exc_msg # "none" \/ ret \in {"fail", "raised"}

C19_StoredOnlyOnSuccessOnce ==
  stored.content # "none" =>
    /\ saves = 1
    /\ pc = "done" => ~TaskFailed

\* C20: save_transcription_result returns normally only when a non-empty
\* file exists for the task; whenever the file is missing or empty after the
\* write, it raises.
SaveReturned == saves > 0 /\ exc_msg # "save"

C20_SaveVerifiesNonEmpty == SaveReturned => stored.content = "full"

\* C21: clear_completed_results returns exactly the number of stored results
\* it removed, and when no deletion failed, get_transcription_result then
\* returns None for every task id and get_all_results returns the empty list.
C21_ClearAllCountsAndEmpties ==
  [][(store_ret'.op = "clear" /\ wall' = wall) =>
       LET removed == {t \in StoredIds : /\ results_dir[t].content # "none"
                                         /\ results_dir'[t].content = "none"}
       IN /\ store_ret'.count = Cardinality(removed)
          /\ store_ret'.failed = {} =>
               /\ \A t \in StoredIds :
                    get_transcription_result(results_dir', t) = "None"
               /\ \A o \in GlobOrders(results_dir') :
                    get_all_results(results_dir', o) = << >>]_vars

C21_Witness ==
  /\ store_ret.op = "clear"
  /\ store_ret.count >= 2
  /\ store_ret.failed = {}
  /\ \A t \in StoredIds : results_dir[t] = NoFile

\* The moment a timestamp written by strftime stands for.
Seconds(ts) == ts[1] * 60 + ts[2] * 10 + ts[3]

ReadableIds == {t \in StoredIds : Readable(results_dir[t])}

\* C22: get_all_results returns one entry per readable stored result, each
\* with the task id of its file, ordered by completion time descending: of
\* two adjacent entries the earlier one's completed_at is not smaller.
C22_ListAllSortedDescending ==
  store_ret.op = "list" =>
    LET e == store_ret.value
    IN /\ Len(e) = Cardinality(ReadableIds)
       /\ {e[i].task_id : i \in 1 .. Len(e)} = ReadableIds
       /\ \A i \in 1 .. Len(e) :
            e[i].completed_at = results_dir[e[i].task_id].completed_at
       /\ \A i \in 1 .. (Len(e) - 1) :
            Seconds(e[i].completed_at) >= Seconds(e[i + 1].completed_at)

C22_Witness ==
  /\ store_ret.op = "list"
  /\ Len(store_ret.value) = 2
  /\ \E t \in StoredIds : results_dir[t].content = "partial"
  /\ Seconds(store_ret.value[1].completed_at) >= 60
  /\ Seconds(store_ret.value[2].completed_at) < 60

\* C23: download_audio returns only if the destination file exists with
\* non-zero size; on a failure it raises a descriptive error and, when the
\* cleanup did not fail, neither the destination nor any artifact the
\* download created in the directory exists any more.
C23_AcquireAudioAllOrNothing ==
  /\ dl_pc = "returned" => dl_dir[Destination] = "data"
  /\ dl_pc = "raised" =>
       /\ dl_err # "none"
       /\ dl_cleanup = "done" => \A n \in FileNames : dl_dir[n] = "absent"

\* The phase a position of the URL pipeline belongs to: Pending,
\* FetchingTranscript, Downloading, Transcribing, terminal.
Phase(p) ==
  IF p \in {"new", "start"} THEN 0
  ELSE IF p \in {"fetch", "youtube_only"} THEN 1
  ELSE IF p \in {"audio", "download"} THEN 2
  ELSE IF p \in {"relay", "reading"} THEN 3
  ELSE 4

WorkerSubmitted == worker = "none" /\ worker' # "none"

\* The last event handed to the sink, once the worker was submitted and once
\* a terminal event was handed over.
NoDownloadEventLast ==
  kind = "url" /\ worker # "none" => sinkLast.message # "Downloading audio..."

TerminalEventLast == kind = "url" /\ termInv >= 1 => Terminal(sinkLast)

\* C24: within one task of the URL pipeline the phases only follow each
\* other in the order Pending, FetchingTranscript, Downloading, Transcribing,
\* terminal; the worker is submitted only when the download has returned
\* successfully; once the transcription phase has begun the sink gets no
\* download progress event; and once the sink was handed a terminal event,
\* the last event it was handed is a terminal one.
C24_PhaseOrder ==
  /\ NoDownloadEventLast /\ TerminalEventLast
  /\ [][/\ kind' = "url" =>
             /\ Phase(pc') >= Phase(pc)
             /\ WorkerSubmitted =>
                  pc = "download" /\ audio' /\ dl_last' = 100
        /\ NoDownloadEventLast'
        /\ TerminalEventLast']_vars

C24_Witness ==
  /\ kind = "url" /\ method = "Both" /\ youtube_result = "ok"
  /\ pc = "done"
  /\ future.done /\ future.success
  /\ last_pos >= 1
  /\ termOk = 1
  /\ Terminal(sinkLast) /\ sinkLast.success

InRelayLoop == pc \in {"relay", "reading", "f_relay"}

\* C25: within one task the events the relay hands to the sink appear in
\* the order in which the worker appended them to the log, and the read
\* offset of the relay never decreases and never exceeds the length of the
\* log.
C25_RelayInAppendOrder ==
  /\ [](Len(sinkLines) = 2 => sinkLines[1] <= sinkLines[2])
  /\ [](InRelayLoop => last_pos <= Len(log))
  /\ [][InRelayLoop /\ InRelayLoop' => last_pos' >= last_pos]_vars

\* The relay of process_transcription reads the line after its offset.
ReadsLine == pc = "reading" /\ last_pos < Len(log) /\ last_pos' = last_pos + 1

\* A poll of the file relay ends in its except clause.
PollFails == pc = "f_relay" /\ repolls' = repolls + 1

\* C26: a log line that cannot be decoded (invalid JSON, or JSON without a
\* recognised type tag) is skipped and never fatal, in both pipelines: the
\* relay keeps running, no exception is recorded for the task, and the
\* cursor of the file relay does not stay in front of the line.
C26_UndecodableLineSkipped ==
  /\ [][ReadsLine /\ ~Relayed(log[last_pos + 1]) =>
          pc' = "reading" /\ exc_msg' = exc_msg]_vars
  /\ [][PollFails /\ log[last_pos + 1].type = "malformed" =>
          last_pos' > last_pos]_vars

\* C27: on each poll the relay consumes only complete lines: its offset
\* never comes to lie inside a line, so every line whose event the relay
\* hands on is handed to the sink when the offset passes it.
C27_OnlyCompleteLinesConsumed ==
  /\ [](~inside)
  /\ [][pc = "reading" /\ last_pos' = last_pos + 1 /\
        Relayed(log[last_pos + 1]) =>
          sinkLines' # << >> /\ sinkLines'[Len(sinkLines')] = last_pos + 1]_vars

\* C28: Progress events read from the log are throttled: between two
\* Progress events of one task that are handed to the sink at least the
\* minimum interval of 2 seconds passes.
C28_ProgressThrottled ==
  Len(progress_at) = 2 =>
    progress_at[2].first - progress_at[1].last >= MinInterval

\* C29: an Error event read from the log is handed to the sink, but it does
\* not end the relay loop and does not make the task terminal: the loop is
\* left only when the future of the worker is done, and a completed task
\* has a worker result with success.
C29_LogErrorNotTerminal ==
  /\ [][kind = "url" /\ ReadsLine /\ log[last_pos + 1].type = "error" =>
          /\ pc' = "reading"
          /\ exc_msg' = exc_msg
          /\ sinkLast' = LogError("worker error")
          /\ ~Terminal(sinkLast') /\ termInv' = termInv
          /\ ~Terminal(tasks'[TaskId])]_vars
  /\ [][kind = "url" /\ pc = "relay" /\ pc' \notin {"relay", "reading"} =>
          future.done]_vars
  /\ [][kind' = "url" /\ worker' # "none" /\ Terminal(sinkLast') /\
        sinkLast'.success => future'.done /\ future'.success]_vars

C29_Witness ==
  /\ kind = "url" /\ pc = "reading"
  /\ last_pos >= 1 /\ log[last_pos].type = "error"
  /\ sinkLast = LogError("worker error")
  /\ ~future.done
  /\ termInv = 0

\* The job of the worker ends with or after an exception raised inside it.
WorkerEndsInException ==
  worker = "running" /\ worker' # "running" /\ ~future'.success

\* C30: on any exception inside the worker both channels are populated: an
\* Error event is the last line appended to the progress log, and the
\* future carries a failure result (success=false), not an exception.
C30_WorkerFailureOnBothChannels ==
  [][WorkerEndsInException =>
       /\ future'.done /\ ~future'.raised
       /\ log' # << >> /\ log'[Len(log')].type = "error"
       /\ Len(log') = Len(log) + 2]_vars

\* The jobs of the pool: the pending ones and the running ones.
Range(seq) == {seq[i] : i \in DOMAIN seq}

JobsBound(t) ==
  Cardinality({i \in DOMAIN whisper_pending : whisper_pending[i] = t})
    + (IF t \in whisper_running THEN 1 ELSE 0)

PoolWithinCapacity ==
  /\ Cardinality(whisper_running) <= whisper_workers
  /\ \A t \in TaskIds :
       /\ JobsBound(t) <= 1
       /\ futures[t] = "pending" <=> t \in Range(whisper_pending)
       /\ futures[t] = "running" <=> t \in whisper_running

\* C33: at most one worker run is bound to a task id: a job is submitted only
\* for a task that has no job yet, and a task id is at most once among the
\* pending and running jobs; at most whisper_workers (1) jobs run at a time,
\* and the other submitted jobs wait in the queue of the pool.
C33_OneJobPerTaskWithinCapacity ==
  /\ PoolWithinCapacity
  /\ [][/\ PoolWithinCapacity'
        /\ \A t \in TaskIds :
             JobsBound(t)' > JobsBound(t) =>
               futures[t] = "none" /\ futures'[t] = "pending"
        /\ \A t \in TaskIds :
             futures[t] \in {"ok", "fail"} => futures'[t] = futures[t]]_vars

\* C33 witness: a job runs and the jobs of two more tasks wait.
C33_Witness ==
  /\ Cardinality(whisper_running) = whisper_workers
  /\ Len(whisper_pending) = 2
  /\ \A t \in Range(whisper_pending) : futures[t] = "pending"

\* C34: the result stored for a successful URL task of the queue records the
\* method and the URL the task was queued with.
C34_StoredRecordsMethodAndUrl ==
  kind = "url" /\ via = "queue" /\ stored.content = "full" =>
    stored.method = method /\ stored.url = url

\* The pipeline leaves its relay loop for the result of the worker.
LeavesRelayLoop ==
  /\ pc \in {"relay", "f_relay"} /\ future.done
  /\ pc' \notin {"relay", "reading", "f_relay"}

\* C35: every line the worker appended to the log before it returned has
\* been read and dispatched by the relay when the pipeline goes on to the
\* result of the worker: no line is left unread after the cursor.
C35_LogReadAfterWorkerReturn ==
  [][LeavesRelayLoop => last_pos = Len(log)]_vars

\* C37: while the worker job of a task has not resolved, the temporary
\* resources of the task are in place: the directory with the audio file in
\* the URL pipeline, the progress file in the file pipeline.
C37_NoCleanupWhileWorkerRuns ==
  worker = "running" /\ ~future.done =>
    IF kind = "url" THEN temp_dir = "exists" /\ audio ELSE progress_file

\* C38: a task for which a readable result file was saved has ended as a
\* success: its pipeline did not return a failure or raise, the last
\* terminal event handed to the sink is a success, and its registry snapshot
\* does not say failed.
C38_StoredImpliesSuccess ==
  stored.content = "full" /\ Exited =>
    /\ ret \notin {"fail", "raised"}
    /\ Terminal(sinkLast) => sinkLast.success
    /\ Snapshot.present =>
         /\ Snapshot.status # "failed"
         /\ Snapshot.complete => Snapshot.success

\* C36: no event of the log is taken by the sink more than once: a line the
\* sink has returned from is not handed to it again by a later poll, in the
\* URL pipeline and in the file pipeline alike.
C36_NoLineTakenTwice == sinkTook.twice = {}

\* C31: every access to the registry made by a call (a read, a write, an
\* iteration, a removal) is made while the call holds the registry lock.
C31_RegistryAccessesLocked == \A a \in accesses : a.locked

\* The snapshots a call has written.
Written == {a \in accesses : a.op = "write"}

\* C32: an update replaces the whole snapshot: after update_progress(id, s)
\* get_progress(id) returns exactly s, whatever the previous snapshot held,
\* and the snapshot of every other task id is what it was.
C32_UpdateReplacesSnapshot ==
  [][\A a \in Written' :
       /\ get_progress(tasks', a.id) = a.value
       /\ \A u \in RegIds \ {a.id} : tasks'[u] = tasks[u]]_vars

\* C32 witness: the snapshot of a queued URL task, which recorded method and
\* URL, was replaced by an event that has neither, while another task has a
\* snapshot of its own.
C32_Witness ==
  \E a \in Written :
    /\ stage[a.id] \in {"url", "done"}
    /\ a.value.method = "absent" /\ a.value.url = << >>
    /\ tasks[a.id] = a.value
    /\ \E u \in RegIds \ {a.id} : tasks[u].present /\ tasks[u] # a.value

\* get_transcription_result returns a result, not None, for task t.
ResultFound(t) == results_dir[t].content # "none" /\ Readable(results_dir[t])

\* C39: a task whose pipeline has finished and whose registry snapshot shows
\* complete and success has a result that get_transcription_result returns.
C39_SuccessSnapshotHasResult ==
  \A t \in RegIds :
    (stage[t] = "done" /\ tasks[t].present /\ tasks[t].complete
       /\ tasks[t].success)
      => ResultFound(t)

\* The snapshot of a task that has reached a terminal state.
TerminalSnapshot(s) ==
  s.present /\ (s.complete \/ s.status \in {"completed", "failed"})

\* C40: clear_queue removes every terminal task from the registry, whichever
\* pipeline produced it, and no task that is pending or in progress: after a
\* clear no terminal snapshot is left, and the other snapshots are kept.
C40_ClearRemovesTerminalTasks ==
  [][store_ret'.op = "clear_queue" =>
       \A t \in RegIds :
         /\ ~TerminalSnapshot(tasks'[t])
         /\ ~TerminalSnapshot(tasks[t]) => tasks'[t] = tasks[t]]_vars

====
